---------------------------- MODULE Spec2Model ----------------------------
(***************************************************************************)
(* Approximate query engine: probabilistic sketches (sketches.py), the     *)
(* planner (planner.py), the executor (executor.py), the ML optimizer      *)
(* (ml_optimizer.py), the sampler (sampler.py) and the /query handler      *)
(* (app.py).                                                               *)
(*                                                                         *)
(* Three specifications share the variables:                               *)
(*   SpecHLL  two HyperLogLog sketches, add / merge / serialize /          *)
(*            deserialize, with a payload in flight;                       *)
(*   SpecCMS  one Count-Min sketch, add / estimate / serialize /           *)
(*            deserialize, with a payload in flight;                       *)
(*   Spec     the metadata store, sample creation and the /query pipeline. *)
(***************************************************************************)
EXTENDS Integers, Sequences, FiniteSets, TLC

VARIABLES
    hll,        \* <<self, other>>: two HyperLogLog objects
    hllWire,    \* HLL payload in flight: [has, data, snap, delta]
    hllOut,     \* result of the last HyperLogLog.deserialize: [ok, sk]
    hllLast,    \* the last HLL call: [op, i, j, pre, raised]
    cms,        \* the Count-Min sketch object
    cmsHash,    \* cmsHash[key][row]: the 64-bit hash of (key, row), unknown but fixed
    cmsTrue,    \* cmsTrue[key]: sum of the counts added for key
    cmsWire,    \* CMS payload in flight: [has, data, snap, delta]
    cmsOut,     \* result of the last CountMinSketch.deserialize: [ok, sk]
    cmsLast,    \* the last CMS call: [op, key, result, adds]
    tables,     \* physical tables of the backing store: name -> [rows, fraction]
    tableStats, \* aqe_table_stats: name -> row_count
    aqeSamples, \* aqe_samples rows, in insertion order
    history,    \* ml_query_performance_history rows, in insertion order
    q,          \* the /query request in flight
    content,    \* rows of a table by value of the strata column: name -> value -> [..]
    strata,     \* aqe_strata_info rows, in insertion order
    sketches,   \* aqe_sketches rows, in insertion order
    adm,        \* the last sample or sketch request and its outcome
    nm,         \* a sample name being built and parsed: [pc, table, ..., parsed]
    eng,        \* an ApproximateQueryEngine and the results of its run_query calls
    learn       \* a call of MLOptimizer._choose_strategy_with_learning

hllVars == <<hll, hllWire, hllOut, hllLast>>
cmsVars == <<cms, cmsHash, cmsTrue, cmsWire, cmsOut, cmsLast>>
dbVars == <<tables, tableStats, aqeSamples, history>>
storeVars == <<content, strata, sketches, adm>>
fnVars == <<nm, eng, learn>>
vars == <<hll, hllWire, hllOut, hllLast, cms, cmsHash, cmsTrue, cmsWire, cmsOut, cmsLast,
          tables, tableStats, aqeSamples, history, q,
          content, strata, sketches, adm, nm, eng, learn>>

(***************************************************************************)
(* Integers, bytes and little-endian packing (struct.pack '<I', '<Q').     *)
(***************************************************************************)
Max2(a, b) == IF a >= b THEN a ELSE b

Min2(a, b) == IF a <= b THEN a ELSE b

\* sum(f(s) for s in ss)
RECURSIVE SumField(_, _)
SumField(ss, f) == IF ss = <<>> THEN 0 ELSE f[ss[1]] + SumField(Tail(ss), f)

RECURSIVE Pow2(_)
Pow2(n) == IF n = 0 THEN 1 ELSE 2 * Pow2(n - 1)

IsByte(x) == x \in 0..255

\* struct.pack('<I' / '<Q', v): n bytes, least significant first
RECURSIVE PackLE(_, _)
PackLE(v, n) == IF n = 0 THEN <<>> ELSE <<v % 256>> \o PackLE(v \div 256, n - 1)

\* struct.unpack('<I' / '<Q', bytes): Horner form, most significant byte innermost
RECURSIVE UnpackLE(_)
UnpackLE(bs) == IF bs = <<>> THEN 0 ELSE Head(bs) + 256 * UnpackLE(Tail(bs))

\* Python slice data[a:b] with 0-based a, b (clipped to the data, never raising)
Slice(data, a, b) == SubSeq(data, a + 1, Min2(b, Len(data)))

(***************************************************************************)
(* HyperLogLog (sketches.py).                                              *)
(***************************************************************************)
HashBits == 64

\* HyperLogLog.__init__(b)
HLLInit(b) ==
    LET bb == IF b < 4 \/ b > 16 THEN 10 ELSE b
    IN [b |-> bb, m |-> Pow2(bb), registers |-> [k \in 1..Pow2(bb) |-> 0]]

\* a 64-bit hash value as its bits, index 1 the least significant
RECURSIVE BitsValue(_)
BitsValue(bits) == IF bits = <<>> THEN 0 ELSE Head(bits) + 2 * BitsValue(Tail(bits))

IsZeroBits(w) == \A k \in 1..Len(w) : w[k] = 0

\* the while loop of add: count leading zeros + 1
RECURSIVE RhoLoop(_, _, _)
RhoLoop(w, leading_zeros, b) ==
    IF ~IsZeroBits(w) /\ leading_zeros <= HashBits - b
    THEN IF Head(w) = 1
         THEN leading_zeros
         ELSE RhoLoop(Tail(w), leading_zeros + 1, b)
    ELSE leading_zeros

\* HyperLogLog.add with hash_val = _hash64(value)
HLLAdd(h, hash_val) ==
    LET j == BitsValue(SubSeq(hash_val, 1, h.b))
        w == SubSeq(hash_val, h.b + 1, HashBits)
        leading_zeros == RhoLoop(w, 1, h.b)
    IN IF leading_zeros > h.registers[j + 1]
       THEN [h EXCEPT !.registers[j + 1] = leading_zeros]
       ELSE h

\* a faulty variant of HLLMerge: the comparison is inverted (register-wise minimum)
HLLMergeMin(self, other) ==
    IF self.m # other.m \/ self.b # other.b
    THEN [raised |-> TRUE, self |-> self]
    ELSE [raised |-> FALSE,
          self |-> [self EXCEPT !.registers =
                       [k \in 1..self.m |->
                           IF other.registers[k] < self.registers[k]
                           THEN other.registers[k] ELSE self.registers[k]]]]

\* a faulty variant of HLLMerge: registers are added instead of maximised
HLLMergeSum(self, other) ==
    IF self.m # other.m \/ self.b # other.b
    THEN [raised |-> TRUE, self |-> self]
    ELSE [raised |-> FALSE,
          self |-> [self EXCEPT !.registers =
                       [k \in 1..self.m |-> self.registers[k] + other.registers[k]]]]

\* HyperLogLog.merge: [raised, self]; other is only read
HLLMerge(self, other) ==
    IF self.m # other.m \/ self.b # other.b
    THEN [raised |-> TRUE, self |-> self]
    ELSE [raised |-> FALSE,
          self |-> [self EXCEPT !.registers =
                       [k \in 1..self.m |->
                           IF other.registers[k] > self.registers[k]
                           THEN other.registers[k] ELSE self.registers[k]]]]

\* HyperLogLog.serialize: bytearray.append and bytes() raise unless every value is a byte
HLLSerialize(h) ==
    IF IsByte(h.b) /\ \A k \in 1..Len(h.registers) : IsByte(h.registers[k])
    THEN [ok |-> TRUE, data |-> <<h.b>> \o PackLE(h.m, 4) \o h.registers]
    ELSE [ok |-> FALSE, data |-> <<>>]

NoHLL == [b |-> 0, m |-> 0, registers |-> <<>>]

\* a faulty variant of HLLDeserialize: the register block is read one byte too early
HLLDeserializeShifted(data) ==
    IF Len(data) < 5
    THEN [ok |-> FALSE, sk |-> NoHLL]
    ELSE LET b == data[1]
             m == UnpackLE(Slice(data, 1, 5))
         IN IF Len(data) # 5 + m
            THEN [ok |-> FALSE, sk |-> NoHLL]
            ELSE [ok |-> TRUE,
                  sk |-> [HLLInit(b) EXCEPT !.registers = SubSeq(data, 5, Len(data) - 1)]]

\* HyperLogLog.deserialize: [ok, sk]; ok = FALSE is the ValueError
HLLDeserialize(data) ==
    IF Len(data) < 5
    THEN [ok |-> FALSE, sk |-> NoHLL]
    ELSE LET b == data[1]
             m == UnpackLE(Slice(data, 1, 5))
         IN IF Len(data) # 5 + m
            THEN [ok |-> FALSE, sk |-> NoHLL]
            ELSE [ok |-> TRUE,
                  sk |-> [HLLInit(b) EXCEPT !.registers = SubSeq(data, 6, Len(data))]]

(***************************************************************************)
(* SpecHLL: two sketches built by add and merge, and a payload in flight.  *)
(* A payload is serialized, possibly damaged, deserialized, and dropped    *)
(* at the next call on a sketch.                                           *)
(***************************************************************************)
\* constructor arguments tried for the two sketches
HLLBitsTried == {4, 5}

\* a hash value with the low byte lo and, when pos > 8, one more set bit at index pos
MkHash(lo, pos) ==
    [k \in 1..HashBits |->
        IF k <= 8 THEN (lo \div Pow2(k - 1)) % 2
        ELSE IF k = pos THEN 1 ELSE 0]

\* values of _hash64 tried: registers 0, 1 and 17; rho 1, a middle value, the largest
HashInputs == {MkHash(lo, pos) : lo \in {0, 17}, pos \in {0, 9, HashBits}}

MaxExtend == 1

NoWire == [has |-> FALSE, data |-> <<>>, snap |-> NoHLL, delta |-> 0]

NoOut == [ok |-> FALSE, sk |-> NoHLL]

NoPre == <<NoHLL, NoHLL>>

HLLIdle == [op |-> "new", i |-> 0, j |-> 0, pre |-> NoPre, raised |-> FALSE]

HLLInitState ==
    /\ hll \in {<<HLLInit(b1), HLLInit(b2)>> : b1 \in HLLBitsTried, b2 \in HLLBitsTried}
    /\ hllWire = NoWire
    /\ hllOut = NoOut
    /\ hllLast = HLLIdle

\* hll[i].add(value)
HLLAddCall(i, hash_val) ==
    /\ hll' = [hll EXCEPT ![i] = HLLAdd(hll[i], hash_val)]
    /\ hllLast' = [op |-> "add", i |-> i, j |-> 0, pre |-> NoPre, raised |-> FALSE]
    /\ hllWire' = NoWire /\ hllOut' = NoOut

\* hll[i].merge(hll[j])
HLLMergeCall(i, j) ==
    LET r == HLLMerge(hll[i], hll[j])
    IN /\ hll' = [hll EXCEPT ![i] = r.self]
       /\ hllLast' = [op |-> "merge", i |-> i, j |-> j, pre |-> hll, raised |-> r.raised]
       /\ hllWire' = NoWire /\ hllOut' = NoOut

\* hll[i].merge(HyperLogLog.deserialize(hll[i].serialize()))
HLLMergeRoundTripCall(i) ==
    LET ser == HLLSerialize(hll[i])
        des == HLLDeserialize(ser.data)
        r == HLLMerge(hll[i], des.sk)
    IN /\ ser.ok /\ des.ok
       /\ hll' = [hll EXCEPT ![i] = r.self]
       /\ hllLast' = [op |-> "merge_round_trip", i |-> i, j |-> 0, pre |-> hll,
                      raised |-> r.raised]
       /\ hllWire' = NoWire /\ hllOut' = NoOut

\* payload = hll[i].serialize()
HLLSerializeCall(i) ==
    LET ser == HLLSerialize(hll[i])
    IN /\ hllWire' = [has |-> ser.ok, data |-> ser.data, snap |-> hll[i], delta |-> 0]
       /\ hllLast' = [op |-> "serialize", i |-> i, j |-> 0, pre |-> NoPre,
                      raised |-> ~ser.ok]
       /\ hllOut' = NoOut
       /\ UNCHANGED hll

\* the payload loses its tail: the first n bytes are kept
HLLTruncate(n) ==
    /\ hllWire.has /\ hllWire.delta = 0
    /\ n < Len(hllWire.data)
    /\ hllWire' = [hllWire EXCEPT !.data = SubSeq(hllWire.data, 1, n),
                                  !.delta = n - Len(hllWire.data)]
    /\ hllOut' = NoOut
    /\ hllLast' = [op |-> "tamper", i |-> 0, j |-> 0, pre |-> NoPre, raised |-> FALSE]
    /\ UNCHANGED hll

\* the payload gains a trailing byte
HLLExtend(byte) ==
    /\ hllWire.has /\ hllWire.delta \in 0..(MaxExtend - 1)
    /\ hllWire' = [hllWire EXCEPT !.data = Append(hllWire.data, byte),
                                  !.delta = hllWire.delta + 1]
    /\ hllOut' = NoOut
    /\ hllLast' = [op |-> "tamper", i |-> 0, j |-> 0, pre |-> NoPre, raised |-> FALSE]
    /\ UNCHANGED hll

\* HyperLogLog.deserialize(payload)
HLLDeserializeCall ==
    /\ hllWire.has
    /\ hllOut' = HLLDeserialize(hllWire.data)
    /\ hllLast' = [op |-> "deserialize", i |-> 0, j |-> 0, pre |-> NoPre,
                   raised |-> ~hllOut'.ok]
    /\ UNCHANGED <<hll, hllWire>>


(***************************************************************************)
(* Count-Min sketch (sketches.py).                                         *)
(*                                                                         *)
(* A double is [sign, expo, nib, low]: the sign bit, the 11-bit biased     *)
(* exponent, the top four bits of the fraction and its low six bytes; its  *)
(* value is (-1)^sign * (16 + nib)/16 * 2^(expo - 1023) when low is zero.  *)
(* The model builds sketches from positive doubles with low = 0: epsilon   *)
(* is an error bound and delta a probability in (0, 1).                    *)
(***************************************************************************)
ExpBias == 1023

ZeroLow == <<0, 0, 0, 0, 0, 0>>

Dbl(k, nib) == [sign |-> 0, expo |-> ExpBias + k, nib |-> nib, low |-> ZeroLow]

\* struct.pack('<d', x)
PackF64(x) == x.low \o <<(x.expo % 16) * 16 + x.nib, x.sign * 128 + x.expo \div 16>>

\* struct.unpack('<d', bytes) of eight bytes
UnpackF64(bs) ==
    [sign |-> bs[8] \div 128,
     expo |-> (bs[8] % 128) * 16 + bs[7] \div 16,
     nib |-> bs[7] % 16,
     low |-> SubSeq(bs, 1, 6)]

CeilDiv(a, b) == (a + b - 1) \div b

\* math.e in thousandths
EMilli == 2718

\* e^n in thousandths, rounded down (exact enough to compare with the 1/delta tried)
RECURSIVE EPowMilli(_)
EPowMilli(n) == IF n = 0 THEN 1000 ELSE (EPowMilli(n - 1) * EMilli) \div 1000

\* int(math.ceil(math.e / epsilon))
CMSWidth(epsilon) ==
    LET k == epsilon.expo - ExpBias
    IN IF k >= 0
       THEN CeilDiv(EMilli * 16, 1000 * (16 + epsilon.nib) * Pow2(k))
       ELSE CeilDiv(EMilli * 16 * Pow2(-k), 1000 * (16 + epsilon.nib))

\* int(math.ceil(math.log(1.0 / delta))) for delta in (0, 1): the least n with
\* e^n >= 1/delta
RECURSIVE CMSDepthFrom(_, _)
CMSDepthFrom(delta, n) ==
    IF EPowMilli(n) * (16 + delta.nib) >= 1000 * 16 * Pow2(ExpBias - delta.expo)
    THEN n
    ELSE CMSDepthFrom(delta, n + 1)

CMSDepth(delta) == CMSDepthFrom(delta, 0)

\* CountMinSketch.__init__(epsilon, delta)
CMSInit(epsilon, delta) ==
    [w |-> CMSWidth(epsilon), d |-> CMSDepth(delta),
     table |-> [i \in 1..CMSDepth(delta) |-> [c \in 1..CMSWidth(epsilon) |-> 0]],
     epsilon |-> epsilon, delta |-> delta]

\* col = _hash(key, i) % w, for row i (0-based), as a 1-based column
CMSCol(c, hashes, key, i) == (hashes[key][i] % c.w) + 1

\* a faulty variant of CMSAdd: the last row is not updated (range(self.d - 1))
CMSAddSkipsRow(c, hashes, key, count) ==
    [c EXCEPT !.table =
        [i \in 1..c.d |->
            IF i = c.d
            THEN c.table[i]
            ELSE [c.table[i] EXCEPT ![CMSCol(c, hashes, key, i - 1)] = @ + count]]]

\* CountMinSketch.add(key, count)
CMSAdd(c, hashes, key, count) ==
    [c EXCEPT !.table =
        [i \in 1..c.d |->
            [c.table[i] EXCEPT ![CMSCol(c, hashes, key, i - 1)] = @ + count]]]

\* min over a non-empty set of integers
SetMin(S) == CHOOSE x \in S : \A y \in S : x <= y

\* CountMinSketch.estimate(key): [ok, value]; int(float('inf')) raises when d = 0
CMSEstimate(c, hashes, key) ==
    IF c.d <= 0
    THEN [ok |-> FALSE, value |-> 0]
    ELSE [ok |-> TRUE,
          value |-> SetMin({c.table[i][CMSCol(c, hashes, key, i - 1)] : i \in 1..c.d})]

RECURSIVE Flatten(_)
Flatten(ss) == IF ss = <<>> THEN <<>> ELSE Head(ss) \o Flatten(Tail(ss))

\* CountMinSketch.serialize: struct.pack('<Q') raises unless 0 <= val < 2^64
\* (counters of the model stay far below 2^64)
CMSSerialize(c) ==
    IF \A i \in 1..c.d : \A j \in 1..c.w : c.table[i][j] >= 0
    THEN [ok |-> TRUE,
          data |-> PackLE(c.w, 4) \o PackLE(c.d, 4) \o PackF64(c.epsilon) \o PackF64(c.delta)
                   \o Flatten([i \in 1..c.d |->
                                  Flatten([j \in 1..c.w |-> PackLE(c.table[i][j], 8)])])]
    ELSE [ok |-> FALSE, data |-> <<>>]

NoCMS == [w |-> 0, d |-> 0, table |-> <<>>, epsilon |-> Dbl(0, 0), delta |-> Dbl(0, 0)]

\* a faulty variant of CMSDeserialize: the counters are read column by column
CMSDeserializeTransposed(data) ==
    IF Len(data) < 24
    THEN [ok |-> FALSE, sk |-> NoCMS]
    ELSE LET w == UnpackLE(Slice(data, 0, 4))
             d == UnpackLE(Slice(data, 4, 8))
             epsilon == UnpackF64(Slice(data, 8, 16))
             delta == UnpackF64(Slice(data, 16, 24))
             Cell(i, j) == Slice(data, 24 + 8 * (j * d + i), 24 + 8 * (j * d + i) + 8)
         IN IF \E i \in 0..(d - 1), j \in 0..(w - 1) : Len(Cell(i, j)) # 8
            THEN [ok |-> FALSE, sk |-> NoCMS]
            ELSE [ok |-> TRUE,
                  sk |-> [w |-> w, d |-> d, epsilon |-> epsilon, delta |-> delta,
                          table |-> [i \in 1..d |->
                                        [j \in 1..w |-> UnpackLE(Cell(i - 1, j - 1))]]]]

\* CountMinSketch.deserialize: [ok, sk]; ok = FALSE is the struct.error of an
\* unpack that is handed fewer bytes than its format needs
CMSDeserialize(data) ==
    IF Len(data) < 24
    THEN [ok |-> FALSE, sk |-> NoCMS]
    ELSE LET w == UnpackLE(Slice(data, 0, 4))
             d == UnpackLE(Slice(data, 4, 8))
             epsilon == UnpackF64(Slice(data, 8, 16))
             delta == UnpackF64(Slice(data, 16, 24))
             Cell(i, j) == Slice(data, 24 + 8 * (i * w + j), 24 + 8 * (i * w + j) + 8)
         IN IF \E i \in 0..(d - 1), j \in 0..(w - 1) : Len(Cell(i, j)) # 8
            THEN [ok |-> FALSE, sk |-> NoCMS]
            ELSE [ok |-> TRUE,
                  sk |-> [w |-> w, d |-> d, epsilon |-> epsilon, delta |-> delta,
                          table |-> [i \in 1..d |->
                                        [j \in 1..w |-> UnpackLE(Cell(i - 1, j - 1))]]]]

(***************************************************************************)
(* SpecCMS: a sketch built by add calls, and a payload in flight.          *)
(* A payload is serialized, possibly damaged, deserialized, and dropped    *)
(* at the next call on the sketch.                                         *)
(***************************************************************************)
CMSKeys == {"x", "y"}

\* epsilon tried: 1.0 (w = 3) and 2.0 (w = 2); delta tried: 0.5 (d = 1), 0.25 (d = 2)
EpsilonsTried == {Dbl(0, 0), Dbl(1, 0)}

DeltasTried == {Dbl(-1, 0), Dbl(-2, 0)}

\* seeds whose hash the model fixes: i in range(d) for the deepest sketch tried
CMSSeeds == 0..1

\* values of _hash tried (taken modulo the width)
CMSHashValues == {1, 5}

\* counts tried: zero, one, and one that needs two bytes
CMSCounts == {0, 1, 300}

MaxCMSAdds == 2

NoCMSWire == [has |-> FALSE, data |-> <<>>, snap |-> NoCMS, delta |-> 0]

CMSInitState ==
    /\ cms \in {CMSInit(e, dl) : e \in EpsilonsTried, dl \in DeltasTried}
    /\ cmsHash \in [CMSKeys -> [CMSSeeds -> CMSHashValues]]
    /\ cmsTrue = [k \in CMSKeys |-> 0]
    /\ cmsWire = NoCMSWire
    /\ cmsOut = [ok |-> FALSE, sk |-> NoCMS]
    /\ cmsLast = [op |-> "new", key |-> "", ok |-> TRUE, value |-> 0, adds |-> 0]

\* cms.add(key, count)
CMSAddCall(key, count) ==
    /\ cmsLast.adds < MaxCMSAdds
    /\ cms' = CMSAdd(cms, cmsHash, key, count)
    /\ cmsTrue' = [cmsTrue EXCEPT ![key] = @ + count]
    /\ cmsLast' = [op |-> "add", key |-> key, ok |-> TRUE, value |-> count,
                   adds |-> cmsLast.adds + 1]
    /\ cmsWire' = NoCMSWire /\ cmsOut' = [ok |-> FALSE, sk |-> NoCMS]
    /\ UNCHANGED cmsHash

\* cms.estimate(key)
CMSEstimateCall(key) ==
    LET r == CMSEstimate(cms, cmsHash, key)
    IN /\ cmsLast' = [op |-> "estimate", key |-> key, ok |-> r.ok, value |-> r.value,
                      adds |-> cmsLast.adds]
       /\ cmsWire' = NoCMSWire /\ cmsOut' = [ok |-> FALSE, sk |-> NoCMS]
       /\ UNCHANGED <<cms, cmsHash, cmsTrue>>

\* payload = cms.serialize()
CMSSerializeCall ==
    LET ser == CMSSerialize(cms)
    IN /\ cmsWire' = [has |-> ser.ok, data |-> ser.data, snap |-> cms, delta |-> 0]
       /\ cmsOut' = [ok |-> FALSE, sk |-> NoCMS]
       /\ cmsLast' = [op |-> "serialize", key |-> "", ok |-> ser.ok, value |-> 0,
                      adds |-> cmsLast.adds]
       /\ UNCHANGED <<cms, cmsHash, cmsTrue>>

\* the payload loses its tail: the first n bytes are kept
CMSTruncate(n) ==
    /\ cmsWire.has /\ cmsWire.delta = 0
    /\ n >= 0 /\ n < Len(cmsWire.data)
    /\ cmsWire' = [cmsWire EXCEPT !.data = SubSeq(cmsWire.data, 1, n),
                                  !.delta = n - Len(cmsWire.data)]
    /\ cmsOut' = [ok |-> FALSE, sk |-> NoCMS]
    /\ cmsLast' = [op |-> "tamper", key |-> "", ok |-> TRUE, value |-> 0,
                   adds |-> cmsLast.adds]
    /\ UNCHANGED <<cms, cmsHash, cmsTrue>>

\* the payload gains a trailing byte
CMSExtend(byte) ==
    /\ cmsWire.has /\ cmsWire.delta \in 0..(MaxExtend - 1)
    /\ cmsWire' = [cmsWire EXCEPT !.data = Append(cmsWire.data, byte),
                                  !.delta = cmsWire.delta + 1]
    /\ cmsOut' = [ok |-> FALSE, sk |-> NoCMS]
    /\ cmsLast' = [op |-> "tamper", key |-> "", ok |-> TRUE, value |-> 0,
                   adds |-> cmsLast.adds]
    /\ UNCHANGED <<cms, cmsHash, cmsTrue>>

\* CountMinSketch.deserialize(payload)
CMSDeserializeCall ==
    /\ cmsWire.has
    /\ cmsOut' = CMSDeserialize(cmsWire.data)
    /\ cmsLast' = [op |-> "deserialize", key |-> "", ok |-> cmsOut'.ok, value |-> 0,
                   adds |-> cmsLast.adds]
    /\ UNCHANGED <<cms, cmsHash, cmsTrue, cmsWire>>


(***************************************************************************)
(* Text.  A Python str is a sequence of one-character strings.  A float    *)
(* is its value in millionths (0.05 is 50000): every fraction the model    *)
(* uses has at most six decimals.                                          *)
(***************************************************************************)
Micro == 1000000

DigitChars == <<"0", "1", "2", "3", "4", "5", "6", "7", "8", "9">>

IsDigit(c) == \E d \in 1..10 : DigitChars[d] = c

DigitValue(c) == (CHOOSE d \in 1..10 : DigitChars[d] = c) - 1

\* str(n) for an integer n >= 0
RECURSIVE IntStr(_)
IntStr(n) == IF n < 10 THEN <<DigitChars[n + 1]>>
             ELSE IntStr(n \div 10) \o <<DigitChars[(n % 10) + 1]>>

\* the k low decimal digits of n, zero padded
RECURSIVE PadDigits(_, _)
PadDigits(n, k) == IF k = 0 THEN <<>>
                   ELSE PadDigits(n \div 10, k - 1) \o <<DigitChars[(n % 10) + 1]>>

\* f"{f:.3f}": f rounded to thousandths (the model uses no fraction that lies
\* exactly between two thousandths)
Format3(f) ==
    LET t == (f + 500) \div 1000
    IN IntStr(t \div 1000) \o <<".">> \o PadDigits(t % 1000, 3)

\* f"{f:.6f}"
Format6(f) == IntStr(f \div Micro) \o <<".">> \o PadDigits(f % Micro, 6)

\* s.replace(a, b) for single characters a, b
ReplaceChar(s, a, b) == [k \in 1..Len(s) |-> IF s[k] = a THEN b ELSE s[k]]

\* s.rstrip("0")
RECURSIVE RStripZeros(_)
RStripZeros(s) ==
    IF s # <<>> /\ s[Len(s)] = "0" THEN RStripZeros(SubSeq(s, 1, Len(s) - 1)) ELSE s

StartsWith(s, pre) == Len(s) >= Len(pre) /\ SubSeq(s, 1, Len(pre)) = pre

\* str.find: the 0-based index of the first occurrence of sub in s, or -1
Find(s, sub) ==
    LET hits == {k \in 0..(Len(s) - Len(sub)) : SubSeq(s, k + 1, k + Len(sub)) = sub}
    IN IF hits = {} THEN -1 ELSE CHOOSE k \in hits : \A h \in hits : k <= h

\* '_'.join(s.split('_')[-2:]): s from just after its second-last underscore
LastTwoParts(s) ==
    LET us == {k \in 1..Len(s) : s[k] = "_"}
        before == {k \in us : Cardinality({u \in us : u > k}) >= 1}
    IN IF Cardinality(us) <= 1 THEN s
       ELSE LET cut == CHOOSE k \in before : Cardinality({u \in us : u > k}) = 1
            IN SubSeq(s, cut + 1, Len(s))

\* the value of a run of digits
RECURSIVE DigitsValue(_)
DigitsValue(ds) ==
    IF ds = <<>> THEN 0 ELSE DigitsValue(SubSeq(ds, 1, Len(ds) - 1)) * 10 + DigitValue(ds[Len(ds)])

RECURSIVE Pow10(_)
Pow10(n) == IF n = 0 THEN 1 ELSE 10 * Pow10(n - 1)

\* float(s) for s of digits and dots: [ok, value]; ok = FALSE is the ValueError.
\* (Names with an exponent, 'inf' or 'nan' spelling are not among those tried: any
\* other character makes float() raise.)
ParseFloat(s) ==
    LET dots == {k \in 1..Len(s) : s[k] = "."}
        good == /\ \A k \in 1..Len(s) : IsDigit(s[k]) \/ s[k] = "."
                /\ Cardinality(dots) <= 1
                /\ \E k \in 1..Len(s) : IsDigit(s[k])
    IN IF ~good THEN [ok |-> FALSE, value |-> 0]
       ELSE LET dot == IF dots = {} THEN Len(s) + 1 ELSE CHOOSE k \in dots : TRUE
                ip == SubSeq(s, 1, dot - 1)
                fp == SubSeq(s, dot + 1, Min2(Len(s), dot + 6))
            IN [ok |-> TRUE,
                value |-> DigitsValue(ip) * Micro + DigitsValue(fp) * Pow10(6 - Len(fp))]

SampleInfix == <<"_", "_", "s", "a", "m", "p", "l", "e", "_">>

StratInfix == <<"_", "_", "s", "t", "r", "a", "t", "_", "s", "a", "m", "p", "l", "e", "_">>

\* sampler._fraction_name
SamplerFractionName(f) ==
    IF f <= 0 THEN <<"0", "_", "0", "0", "0">>
    ELSE LET s0 == IF f < 1000 THEN Format6(f) ELSE Format3(f)
             s1 == RStripZeros(ReplaceChar(s0, ".", "_"))
             s2 == IF s1[Len(s1)] = "_" THEN s1 \o <<"0">> ELSE s1
         IN IF StartsWith(s2, <<"0", "_">>) THEN s2 ELSE <<"0", "_">> \o s2

\* Planner._fraction_name
PlannerFractionName(f) ==
    IF f <= 0 THEN <<"0", "_", "0", "0", "0">>
    ELSE LET s1 == RStripZeros(ReplaceChar(Format3(f), ".", "_"))
         IN IF s1[Len(s1)] = "_" THEN s1 \o <<"0">> ELSE s1

\* MLOptimizer._fraction_name
MLFractionName(f) ==
    IF f <= 0 THEN <<"0", "_", "0", "0", "0">>
    ELSE LET s1 == RStripZeros(ReplaceChar(Format3(f), ".", "_"))
             s2 == IF s1[Len(s1)] = "_" THEN s1 \o <<"0">> ELSE s1
         IN IF StartsWith(s2, <<"0", "_">>) THEN s2 ELSE <<"0", "_">> \o s2

\* floor(n * f) for a row count n and a fraction f in millionths, without leaving
\* 32 bits
FloorRows(n, f) == (n * (f \div 1000) + (n * (f % 1000)) \div 1000) \div 1000


(***************************************************************************)
(* SQL and the backing store.                                              *)
(*                                                                         *)
(* The SQL tried has the shape  SELECT <col> <kw> <table>  with an         *)
(* optional  WHERE (ROWID % k) = 0  the optimizer appends: [kw, table,     *)
(* col, distinct, groupBy, rowid].  kw is the FROM keyword as spelled ("" *)
(* when the statement has none), rowid the modulus k (0 when absent).  The *)
(* table name occurs once in the statement.  An error tolerance is         *)
(* [num, inv]: the value num/inv with num in {-1, 0, 1}.                   *)
(***************************************************************************)
NoName == <<>>

NoSQL == [kw |-> "", table |-> NoName, col |-> "", distinct |-> FALSE,
          groupBy |-> FALSE, rowid |-> 0]

\* column names of the result whose uppercased text contains COUNT, SUM, TOTAL,
\* REVENUE or ORDERS, among the columns tried
KeywordColumns == {"COUNT(*)", "SUM(v)", "total", "revenue", "orders"}

ColumnsTried == {"COUNT(*)", "AVG(v)"}

\* re.search(r'FROM\s+([a-zA-Z0-9_]+)', sql, re.IGNORECASE): the name, or NoName
ExtractTableName(sql) == IF sql.kw \in {"FROM", "from"} THEN sql.table ELSE NoName

TableExists(name) == name \in DOMAIN tables

\* eps > 1/k for an integer k >= 1
EpsAbove(eps, k) == eps.num = 1 /\ eps.inv < k

(***************************************************************************)
(* Planner (planner.py).                                                   *)
(***************************************************************************)
ScanCostPerRow == 1

HashCostPerGroup == 2

SampleSetupCost == 5

MaxGroups == 10000

Absent == [kind |-> "absent", rows |-> 0, fraction |-> 0]

ZeroError == [kind |-> "zero", rows |-> 0, fraction |-> 0]

\* estimated_error <= max_rel_error, for an error 0.0 or sqrt(1/(fraction*rows))
ErrLeq(err, eps) ==
    CASE err.kind = "zero" -> eps.num >= 0
      [] err.kind = "rsqrt" ->
            eps.num = 1 /\ FloorRows(err.rows, err.fraction) >= eps.inv * eps.inv
      [] OTHER -> FALSE

\* s.get("estimated_error", 0) <= max_rel_error
ErrOrZeroLeq(err, eps) == IF err.kind = "absent" THEN eps.num >= 0 ELSE ErrLeq(err, eps)

\* Planner._parse_sample_table_name: [original, fraction, is_sample]
ParseSampleTableName(table_name) ==
    LET i1 == Find(table_name, SampleInfix)
        f1 == ParseFloat(ReplaceChar(SubSeq(table_name, i1 + 10, Len(table_name)), "_", "."))
        i2 == Find(table_name, StratInfix)
        rest == SubSeq(table_name, i2 + 16, Len(table_name))
        f2 == ParseFloat(ReplaceChar(LastTwoParts(rest), "_", "."))
    IN IF i1 >= 0 /\ f1.ok
       THEN [original |-> SubSeq(table_name, 1, i1), fraction |-> f1.value,
             is_sample |-> TRUE]
       ELSE IF i2 >= 0 /\ Cardinality({k \in 1..Len(rest) : rest[k] = "_"}) >= 1 /\ f2.ok
            THEN [original |-> SubSeq(table_name, 1, i2), fraction |-> f2.value,
                  is_sample |-> TRUE]
            ELSE [original |-> table_name, fraction |-> 0, is_sample |-> FALSE]

\* minimum of a non-empty set of integers
MinOf(S) == CHOOSE x \in S : \A y \in S : x <= y

\* Planner._get_table_stats: [ok, row_count, best_sample_fraction]; ok = FALSE is None
GetTableStats(table) ==
    LET fr == {aqeSamples[k].sample_fraction :
                  k \in {n \in 1..Len(aqeSamples) : aqeSamples[n].table_name = table}}
        best == IF fr = {} THEN 0 ELSE MinOf(fr)
    IN IF table \in DOMAIN tableStats
       THEN [ok |-> TRUE, row_count |-> tableStats[table], best_sample_fraction |-> best]
       ELSE IF TableExists(table)
            THEN [ok |-> TRUE, row_count |-> tables[table].rows,
                  best_sample_fraction |-> best]
            ELSE [ok |-> FALSE, row_count |-> 0, best_sample_fraction |-> 0]

\* Planner._estimate_exact_cost
EstimateExactCost(sql, stats) ==
    stats.row_count * ScanCostPerRow
        + (IF sql.groupBy THEN Min2(stats.row_count, MaxGroups) * HashCostPerGroup ELSE 0)

NoPlan == [type |-> "", sql |-> NoSQL, original_sql |-> NoSQL, table |-> NoName,
           sample_table |-> NoName, sample_fraction |-> 0, has_fraction |-> FALSE,
           estimated_error |-> Absent, reason |-> ""]

ExactPlan(sql, table, err, reason) ==
    [NoPlan EXCEPT !.type = "exact", !.sql = sql, !.original_sql = sql, !.table = table,
                   !.estimated_error = err, !.reason = reason]

\* Planner._evaluate_sample_strategy: [raised, found, plan]; raised is the
\* ZeroDivisionError of 1.0 / (fraction * row_count)
EvaluateSampleStrategy(sql, table, stats) ==
    LET fraction == stats.best_sample_fraction
        sample_table == table \o SampleInfix \o PlannerFractionName(fraction)
    IN IF ~TableExists(sample_table)
       THEN [raised |-> FALSE, found |-> FALSE, plan |-> NoPlan]
       ELSE IF stats.row_count = 0
            THEN [raised |-> TRUE, found |-> FALSE, plan |-> NoPlan]
            ELSE [raised |-> FALSE, found |-> TRUE,
                  plan |-> [NoPlan EXCEPT
                      !.type = "sample",
                      !.sql = [sql EXCEPT !.table = sample_table],
                      !.original_sql = sql,
                      !.table = table,
                      !.sample_table = sample_table,
                      !.sample_fraction = fraction,
                      !.has_fraction = TRUE,
                      !.estimated_error = [kind |-> "rsqrt", rows |-> stats.row_count,
                                           fraction |-> fraction],
                      !.reason = "using sample"]]

\* sample cost < exact cost:  rows * fraction + setup < exact
SampleCheaper(stats, exact_cost) ==
    /\ exact_cost - SampleSetupCost > 0
    /\ ~(FloorRows(stats.row_count * ScanCostPerRow, stats.best_sample_fraction)
            >= exact_cost - SampleSetupCost)

\* Planner._choose_best_strategy over [exact] or [exact, sample]
ChooseBestStrategy(exact, has_sample, sample, stats, sql, eps) ==
    LET exact_ok == ErrOrZeroLeq(exact.estimated_error, eps)
        sample_ok == has_sample /\ ErrOrZeroLeq(sample.estimated_error, eps)
    IN IF ~exact_ok /\ ~sample_ok THEN exact
       ELSE IF sample_ok /\ (~exact_ok \/ SampleCheaper(stats, EstimateExactCost(sql, stats)))
            THEN sample
            ELSE exact

\* a faulty variant of Planner.plan: the prefer_exact check comes after the
\* stats lookup and only applies when no sample is recorded
PlannerPlanPreferLast(sql, eps, prefer_exact) ==
    LET table == ExtractTableName(sql)
        parsed == ParseSampleTableName(table)
        stats == GetTableStats(table)
        exact == ExactPlan(sql, table, ZeroError, "exact execution")
        sample == EvaluateSampleStrategy(sql, table, stats)
    IN IF table = NoName
       THEN [raised |-> FALSE, plan |-> ExactPlan(sql, NoName, Absent, "no table found")]
       ELSE IF parsed.is_sample
       THEN [raised |-> FALSE,
             plan |-> [NoPlan EXCEPT !.type = "sample", !.sql = sql, !.original_sql = sql,
                                     !.table = parsed.original, !.sample_table = table,
                                     !.sample_fraction = parsed.fraction,
                                     !.has_fraction = TRUE,
                                     !.reason = "direct query on sample table"]]
       ELSE IF ~stats.ok
       THEN [raised |-> FALSE,
             plan |-> ExactPlan(sql, table, Absent, "no table stats available")]
       ELSE IF stats.best_sample_fraction > 0
       THEN IF sample.raised
            THEN [raised |-> TRUE, plan |-> NoPlan]
            ELSE [raised |-> FALSE,
                  plan |-> ChooseBestStrategy(exact, sample.found, sample.plan, stats,
                                              sql, eps)]
       ELSE [raised |-> FALSE, plan |-> ExactPlan(sql, table, Absent, "user prefers exact")]

\* Planner.plan: [raised, plan]
PlannerPlan(sql, eps, prefer_exact) ==
    LET table == ExtractTableName(sql)
        parsed == ParseSampleTableName(table)
        stats == GetTableStats(table)
        exact == ExactPlan(sql, table, ZeroError, "exact execution")
        sample == EvaluateSampleStrategy(sql, table, stats)
    IN IF table = NoName
       THEN [raised |-> FALSE, plan |-> ExactPlan(sql, NoName, Absent, "no table found")]
       ELSE IF parsed.is_sample
       THEN [raised |-> FALSE,
             plan |-> [NoPlan EXCEPT !.type = "sample", !.sql = sql, !.original_sql = sql,
                                     !.table = parsed.original, !.sample_table = table,
                                     !.sample_fraction = parsed.fraction,
                                     !.has_fraction = TRUE,
                                     !.reason = "direct query on sample table"]]
       ELSE IF prefer_exact
       THEN [raised |-> FALSE, plan |-> ExactPlan(sql, table, Absent, "user prefers exact")]
       ELSE IF ~stats.ok
       THEN [raised |-> FALSE,
             plan |-> ExactPlan(sql, table, Absent, "no table stats available")]
       ELSE IF stats.best_sample_fraction > 0
       THEN IF sample.raised
            THEN [raised |-> TRUE, plan |-> NoPlan]
            ELSE [raised |-> FALSE,
                  plan |-> ChooseBestStrategy(exact, sample.found, sample.plan, stats,
                                              sql, eps)]
       ELSE [raised |-> FALSE,
             plan |-> ChooseBestStrategy(exact, FALSE, NoPlan, stats, sql, eps)]

(***************************************************************************)
(* MLOptimizer (ml_optimizer.py).                                          *)
(***************************************************************************)
\* MLOptimizer._extract_query_features
ExtractQueryFeatures(sql, eps) ==
    LET name == ExtractTableName(sql)
    IN [table_name |-> name,
        table_size |-> IF name # NoName /\ TableExists(name) THEN tables[name].rows ELSE 0,
        has_count |-> sql.col = "COUNT(*)",
        has_sum |-> sql.col = "SUM(v)",
        has_avg |-> sql.col = "AVG(v)",
        has_distinct |-> sql.distinct,
        has_group_by |-> sql.groupBy,
        group_by_cardinality |-> IF sql.groupBy THEN 1 ELSE 0,
        error_tolerance |-> eps]

\* a strategy with its confidence, in thousandths
Choice(strategy, confidence) == [strategy |-> strategy, confidence |-> confidence]

\* a faulty variant of _choose_base_strategy: the GROUP BY rule comes before the
\* DISTINCT rule
ChooseBaseGroupByFirst(features) ==
    LET tolerant == EpsAbove(features.error_tolerance, 1000)
    IN IF features.table_size <= 1000 THEN Choice("exact", 950)
       ELSE IF features.has_group_by /\ tolerant
       THEN IF features.table_size > 10000 /\ features.group_by_cardinality > 1
            THEN Choice("stratified", 850) ELSE Choice("sketch", 800)
       ELSE IF features.has_distinct /\ features.has_count /\ tolerant
       THEN Choice("sketch", 900)
       ELSE IF features.table_size > 5000 /\ tolerant
               /\ (features.has_count \/ features.has_sum \/ features.has_avg)
       THEN Choice("sample", 850)
       ELSE IF features.table_size > 1000 /\ tolerant
               /\ (features.has_count \/ features.has_sum)
       THEN Choice("sample", 750)
       ELSE Choice("exact", 600)

\* MLOptimizer._choose_base_strategy: the strategy and its confidence
ChooseBase(features) ==
    LET tolerant == EpsAbove(features.error_tolerance, 1000)
    IN IF features.table_size <= 1000 THEN Choice("exact", 950)
       ELSE IF features.has_distinct /\ features.has_count /\ tolerant
       THEN Choice("sketch", 900)
       ELSE IF features.has_group_by /\ tolerant
       THEN IF features.table_size > 10000 /\ features.group_by_cardinality > 1
            THEN Choice("stratified", 850) ELSE Choice("sketch", 800)
       ELSE IF features.table_size > 5000 /\ tolerant
               /\ (features.has_count \/ features.has_sum \/ features.has_avg)
       THEN Choice("sample", 850)
       ELSE IF features.table_size > 1000 /\ tolerant
               /\ (features.has_count \/ features.has_sum)
       THEN Choice("sample", 750)
       ELSE Choice("exact", 600)

\* the strategy of _choose_base_strategy
ChooseBaseStrategy(features) == ChooseBase(features).strategy

\* MLOptimizer._get_historical_performance: the rows whose table_size lies within
\* half the query's table size of it and whose error_tolerance lies within half
\* the query's tolerance of it, newest first, 20 at most
GetHistoricalPerformance(features) ==
    LET eps == features.error_tolerance
        matches(h) ==
            /\ 2 * h.table_size >= features.table_size
            /\ 2 * h.table_size <= 3 * features.table_size
            /\ 2 * h.error_tolerance.num * eps.inv >= eps.num * h.error_tolerance.inv
            /\ 2 * h.error_tolerance.num * eps.inv <= 3 * eps.num * h.error_tolerance.inv
        kept == SelectSeq(history, matches)
        newest == [k \in 1..Len(kept) |-> kept[Len(kept) + 1 - k]]
    IN SubSeq(newest, 1, Min2(Len(newest), 20))

\* strategy_perf of _choose_strategy_with_learning: per strategy the count and the
\* sums of actual_speedup and actual_error (millionths)
StrategyPerf(historical_perf, s) ==
    LET rows == SelectSeq(historical_perf, LAMBDA h : h.strategy = s)
    IN [count |-> Len(rows),
        speedup |-> SumField(rows, [h \in {rows[k] : k \in 1..Len(rows)} |-> h.actual_speedup]),
        error |-> SumField(rows, [h \in {rows[k] : k \in 1..Len(rows)} |-> h.actual_error])]

\* ten times count times the score 0.6 * avg_speedup - 0.4 * avg_error
ScoreTimesCount(perf) == 6 * perf.speedup - 4 * perf.error

\* avg_error <= error_tolerance * 1.2
WithinLearningGate(perf, eps) ==
    10 * perf.error * eps.inv <= 12 * eps.num * Micro * perf.count

\* the loop of lines 133-148 over the strategies in order of first appearance:
\* best is [strategy, score, count, confidence], the score as ScoreTimesCount
\* over count, the confidence min(0.6 + 0.3 * (count / 10), 0.95) in thousandths
RECURSIVE LearningLoop(_, _, _, _)
LearningLoop(historical_perf, order, eps, best) ==
    IF order = <<>> THEN Choice(best.strategy, best.confidence)
    ELSE LET s == Head(order)
             perf == StrategyPerf(historical_perf, s)
             better == ScoreTimesCount(perf) * best.count > best.score * perf.count
         IN IF better /\ WithinLearningGate(perf, eps)
            THEN LearningLoop(historical_perf, Tail(order), eps,
                              [strategy |-> s, score |-> ScoreTimesCount(perf),
                               count |-> perf.count,
                               confidence |-> Min2(600 + 30 * perf.count, 950)])
            ELSE LearningLoop(historical_perf, Tail(order), eps, best)

\* the keys of strategy_perf in insertion order
RECURSIVE FirstAppearance(_, _)
FirstAppearance(historical_perf, seen) ==
    IF historical_perf = <<>> THEN <<>>
    ELSE IF Head(historical_perf).strategy \in seen
    THEN FirstAppearance(Tail(historical_perf), seen)
    ELSE <<Head(historical_perf).strategy>>
            \o FirstAppearance(Tail(historical_perf),
                               seen \cup {Head(historical_perf).strategy})

\* MLOptimizer._choose_strategy_with_learning: the strategy and its confidence
ChooseWithLearning(features, historical_perf) ==
    LET base == ChooseBase(features)
    IN IF historical_perf = <<>> THEN base
       ELSE LearningLoop(historical_perf, FirstAppearance(historical_perf, {}),
                         features.error_tolerance,
                         [strategy |-> base.strategy, score |-> 0, count |-> 1,
                          confidence |-> base.confidence])

\* the strategy of _choose_strategy_with_learning
ChooseStrategyWithLearning(features, historical_perf) ==
    ChooseWithLearning(features, historical_perf).strategy

\* the fraction _apply_transformations picks for the sample strategy
MLSampleFraction(features) ==
    LET base == IF features.table_size > 100000 THEN 10000
                ELSE IF features.table_size > 50000 THEN 20000
                ELSE 50000
    IN IF EpsAbove(features.error_tolerance, 10) THEN base \div 2 ELSE base

\* sql.replace(f"FROM {table}", f"FROM {new_table}{suffix}"): the text matches only
\* a FROM spelled in capitals
ReplaceFrom(sql, new_table, rowid) ==
    IF sql.kw = "FROM" THEN [sql EXCEPT !.table = new_table, !.rowid = rowid] ELSE sql

\* an estimated error max(lo, min(hi, 1 / sqrt(n))), lo and hi in thousandths
Estimate(lo, hi, n) == [lo |-> lo, hi |-> hi, n |-> n]

\* estimated_error > eps
EstimateAbove(err, eps) ==
    \/ err.lo * eps.inv > 1000 * eps.num
    \/ /\ err.hi * eps.inv > 1000 * eps.num
       /\ eps.inv * eps.inv > eps.num * eps.num * err.n

\* the estimated_error _apply_transformations returns
MLEstimatedError(strategy, features, fraction) ==
    CASE strategy = "exact" -> Estimate(0, 0, 1)
      [] strategy = "sample" ->
            Estimate(10, 500, Max2(100, FloorRows(features.table_size, fraction)))
      [] strategy = "sketch" ->
            IF features.table_size > 5000
            THEN Estimate(20, 300, (features.table_size * 3) \div 10)
            ELSE Estimate(50, 50, 1)
      [] OTHER -> Estimate(20, 20, 1)

NoML == [strategy |-> "", modified_sql |-> NoSQL, fraction_text |-> <<>>,
         estimated_error |-> Estimate(0, 0, 1)]

\* MLOptimizer._apply_transformations: the rewritten SQL and, for the sample strategy,
\* the text after "fraction: " in its transformation string
ApplyTransformations(sql, strategy, features) ==
    LET fraction == MLSampleFraction(features)
        sample_table_name == features.table_name \o SampleInfix \o MLFractionName(fraction)
    IN CASE strategy = "exact" ->
              [strategy |-> strategy, modified_sql |-> sql, fraction_text |-> <<>>,
               estimated_error |-> MLEstimatedError(strategy, features, fraction)]
         [] strategy = "sample" ->
              [strategy |-> strategy,
               modified_sql |->
                   IF TableExists(sample_table_name)
                   THEN ReplaceFrom(sql, sample_table_name, sql.rowid)
                   ELSE ReplaceFrom(sql, features.table_name, Micro \div fraction),
               fraction_text |-> Format3(fraction),
               estimated_error |-> MLEstimatedError(strategy, features, fraction)]
         [] strategy = "sketch" ->
              [strategy |-> strategy,
               modified_sql |-> ReplaceFrom(sql, features.table_name, 3),
               fraction_text |-> <<>>,
               estimated_error |-> MLEstimatedError(strategy, features, fraction)]
         [] OTHER ->
              [strategy |-> strategy, modified_sql |-> sql, fraction_text |-> <<>>,
               estimated_error |-> MLEstimatedError(strategy, features, fraction)]

\* MLOptimizer.optimize_query
OptimizeQuery(sql, eps) ==
    LET features == ExtractQueryFeatures(sql, eps)
        historical_perf == GetHistoricalPerformance(features)
    IN ApplyTransformations(sql, ChooseStrategyWithLearning(features, historical_perf),
                            features)

\* the fraction scale_ml_optimized_results recovers from the transformation string:
\* re.search(r'fraction:\s*([\d.]+)') and float(), 0.01 when nothing is found
MLRecoveredFraction(ml) ==
    IF ml.fraction_text # <<>> /\ ParseFloat(ml.fraction_text).ok
    THEN ParseFloat(ml.fraction_text).value
    ELSE 10000

(***************************************************************************)
(* Sampler (sampler.py): create_uniform_sample, called by /samples/create. *)
(***************************************************************************)
BaseTable == <<"t">>

BaseRowsTried == {0, 500, 2000}

FractionsTried == {0, 50000, 500000, Micro}

MaxSamples == 2

\* create_uniform_sample, lines 21-22, and create_stratified_sample, lines 65-66:
\* the ValueError
FractionNeverInvalid(fraction) == FALSE

InvalidFraction(fraction) == fraction <= 0 \/ fraction >= Micro

\* _record_sample_meta and the statements before it, as one transaction
CreateUniformSample(table, fraction) ==
    /\ Len(aqeSamples) < MaxSamples
    /\ TableExists(table)
    /\ IF InvalidFraction(fraction)
       THEN UNCHANGED <<tables, tableStats, aqeSamples>>
       ELSE LET name == table \o SampleInfix \o SamplerFractionName(fraction)
            IN /\ \E n \in {0, FloorRows(tables[table].rows, fraction)} :
                     tables' = [k \in DOMAIN tables \cup {name} |->
                                   IF k = name
                                   THEN [rows |-> n, fraction |-> fraction]
                                   ELSE tables[k]]
               /\ tableStats' = [k \in DOMAIN tableStats \cup {table} |->
                                    IF k = table THEN tables[table].rows
                                    ELSE tableStats[k]]
               /\ aqeSamples' = Append(aqeSamples,
                                    [table_name |-> table, sample_table |-> name,
                                     sample_fraction |-> fraction])
    /\ UNCHANGED <<history, q>>

(***************************************************************************)
(* Sampler (sampler.py): create_stratified_sample.                         *)
(*                                                                         *)
(* content[T][v] describes the rows of table T whose strata column holds   *)
(* v: [rows, var_null, sd], rows of them in all, var_null of them with a   *)
(* NULL variance column, and sd the standard deviation of the variance     *)
(* column over the others (its square is the variance SQL computes).       *)
(* NullValue stands for SQL NULL.  A stratum is [strata_key, strata_value,  *)
(* pop_size, variance, sample_size, fraction, weight], fractions in        *)
(* millionths.                                                             *)
(***************************************************************************)
NullValue == "NULL"

StrataValues == {"a", "b"}

StrataColumn == <<"s">>

NoRows == [rows |-> 0, var_null |-> 0, sd |-> 0]

\* SELECT COUNT(*) FROM table
CountRows(c) ==
    LET RECURSIVE Sum(_)
        Sum(S) == IF S = {} THEN 0
                  ELSE LET v == CHOOSE x \in S : TRUE IN c[v].rows + Sum(S \ {v})
    IN Sum(DOMAIN c)

\* the rows _analyze_strata counts for value v: the WHERE clause drops the rows
\* whose variance column is NULL when a variance column is given
PopSize(c, v, variance_col) == IF variance_col THEN c[v].rows - c[v].var_null ELSE c[v].rows

\* ORDER BY pop_size DESC over the groups S (ties in the order of the values)
RECURSIVE OrderStrata(_, _, _)
OrderStrata(c, S, variance_col) ==
    IF S = {} THEN <<>>
    ELSE LET v == CHOOSE x \in S :
                    \A y \in S : \/ PopSize(c, x, variance_col) > PopSize(c, y, variance_col)
                                 \/ /\ PopSize(c, x, variance_col) = PopSize(c, y, variance_col)
                                    /\ (x = y \/ x = "a")
         IN <<v>> \o OrderStrata(c, S \ {v}, variance_col)

\* sampler._analyze_strata: one stratum per non-NULL value that has rows left
AnalyzeStrata(table, strata_col, variance_col) ==
    LET c == content[table]
        groups == {v \in StrataValues : PopSize(c, v, variance_col) > 0}
        order == OrderStrata(c, groups, variance_col)
    IN [k \in 1..Len(order) |->
           [strata_key |-> strata_col,
            strata_value |-> order[k],
            pop_size |-> PopSize(c, order[k], variance_col),
            variance |-> IF variance_col /\ PopSize(c, order[k], variance_col) > 1
                         THEN c[order[k]].sd * c[order[k]].sd ELSE 0,
            sample_size |-> 0, fraction |-> 0, weight |-> 0]]

\* math.sqrt of a variance that is a perfect square
Sqrt(n) == CHOOSE r \in 0..n : r * r = n

\* sampler._allocate_proportional
AllocateProportional(ss, total_fraction) ==
    [k \in 1..Len(ss) |->
        [ss[k] EXCEPT !.fraction = total_fraction,
                      !.sample_size = FloorRows(ss[k].pop_size, total_fraction),
                      !.weight = ss[k].pop_size]]

\* a faulty variant of the Neyman allocation: the allocation is never capped
AllocateNeymanUncapped(ss, total_fraction) ==
    LET total_pop == SumField(ss, [s \in {ss[k] : k \in 1..Len(ss)} |-> s.pop_size])
        w(s) == s.pop_size * Sqrt(s.variance)
        total_weight == SumField(ss, [s \in {ss[k] : k \in 1..Len(ss)} |-> w(s)])
        alloc(s) ==
            IF total_weight > 0
            THEN LET n == (total_pop * total_fraction * w(s)) \div (Micro * total_weight)
                 IN [s EXCEPT !.weight = w(s), !.sample_size = n,
                              !.fraction = (n * Micro) \div s.pop_size]
            ELSE [s EXCEPT !.weight = w(s), !.fraction = total_fraction,
                           !.sample_size = FloorRows(s.pop_size, total_fraction)]
    IN [k \in 1..Len(ss) |-> alloc(ss[k])]

\* sampler._allocate_neyman_optimal
AllocateNeyman(ss, total_fraction) ==
    LET total_pop == SumField(ss, [s \in {ss[k] : k \in 1..Len(ss)} |-> s.pop_size])
        w(s) == s.pop_size * Sqrt(s.variance)
        total_weight == SumField(ss, [s \in {ss[k] : k \in 1..Len(ss)} |-> w(s)])
        alloc(s) ==
            IF total_weight > 0
            THEN LET n == (total_pop * total_fraction * w(s)) \div (Micro * total_weight)
                 IN [s EXCEPT !.weight = w(s), !.sample_size = n,
                              !.fraction = (n * Micro) \div s.pop_size]
            ELSE [s EXCEPT !.weight = w(s), !.fraction = total_fraction,
                           !.sample_size = FloorRows(s.pop_size, total_fraction)]
        cap(s) == IF s.fraction > Micro
                  THEN [s EXCEPT !.fraction = Micro, !.sample_size = s.pop_size]
                  ELSE s
    IN [k \in 1..Len(ss) |-> cap(alloc(ss[k]))]

\* the numbers of rows the random filter of _build_stratified_sample_query can keep
\* of the n rows of a stratum: any number, all of them when the fraction is 1
DrawnTried(s, n) ==
    IF s.sample_size = 0 THEN {0}
    ELSE IF s.fraction >= Micro THEN {n}
    ELSE {0, Min2(s.sample_size, n), n}

\* the numbers of rows the sample can hold of value v: none when v has no stratum
DrawnFor(ss, c, v) ==
    IF \E k \in 1..Len(ss) : ss[k].strata_value = v
    THEN DrawnTried(ss[CHOOSE k \in 1..Len(ss) : ss[k].strata_value = v], c[v].rows)
    ELSE {0}

\* sampler._update_actual_sample_sizes: only the values present in the sample
UpdateActualSampleSizes(ss, drawn) ==
    [k \in 1..Len(ss) |->
        IF drawn[ss[k].strata_value] > 0
        THEN [ss[k] EXCEPT !.sample_size = drawn[ss[k].strata_value],
                           !.fraction = (drawn[ss[k].strata_value] * Micro)
                                            \div ss[k].pop_size]
        ELSE ss[k]]

\* create_stratified_sample, with _record_stratified_sample_meta
CreateStratifiedSample(table, strata_col, total_fraction, variance_col) ==
    /\ Len(aqeSamples) < MaxSamples
    /\ TableExists(table)
    /\ IF InvalidFraction(total_fraction)
       THEN UNCHANGED <<tables, aqeSamples, content, strata>>
       ELSE LET analysed == AnalyzeStrata(table, strata_col, variance_col)
                ss == IF variance_col THEN AllocateNeyman(analysed, total_fraction)
                      ELSE AllocateProportional(analysed, total_fraction)
                sample_name == table \o StratInfix \o strata_col \o <<"_">>
                                   \o SamplerFractionName(total_fraction)
            IN \E da \in DrawnFor(ss, content[table], "a"),
                  db \in DrawnFor(ss, content[table], "b") :
               LET drawn == [v \in StrataValues |-> IF v = "a" THEN da ELSE db]
                   final == UpdateActualSampleSizes(ss, drawn)
               IN
                  /\ tables' = [n \in DOMAIN tables \cup {sample_name} |->
                                   IF n = sample_name
                                   THEN [rows |-> drawn["a"] + drawn["b"],
                                         fraction |-> total_fraction]
                                   ELSE tables[n]]
                  /\ content' = [n \in DOMAIN content \cup {sample_name} |->
                                    IF n = sample_name
                                    THEN [v \in StrataValues \cup {NullValue} |->
                                             IF v = NullValue THEN NoRows
                                             ELSE [NoRows EXCEPT !.rows = drawn[v]]]
                                    ELSE content[n]]
                  /\ aqeSamples' = Append(aqeSamples,
                                       [table_name |-> table, sample_table |-> sample_name,
                                        sample_fraction |-> total_fraction,
                                        strata_column |-> strata_col])
                  /\ strata' = strata \o
                        [k \in 1..Len(ss) |->
                            LET st == final[k]
                            IN [sample_table |-> sample_name,
                                strata_key |-> st.strata_key,
                                strata_value |-> st.strata_value,
                                pop_size |-> st.pop_size,
                                sample_size |-> st.sample_size,
                                fraction |-> st.fraction,
                                weight |-> st.weight,
                                variance |-> st.variance]]
    /\ UNCHANGED <<tableStats, history, q, sketches>>

(***************************************************************************)
(* Sketch records (storage.py upsert_sketch, app.py create_sketch).        *)
(*                                                                         *)
(* A row of aqe_sketches is [table_name, column_name, sketch_type,         *)
(* sketch_data, parameters].  sketch_data is kept as what the serialized   *)
(* sketch was built from (the byte layouts are HLLSerialize and            *)
(* CMSSerialize above); parameters as the request's parameters object.     *)
(***************************************************************************)
MaxSketches == 2

\* the row ON CONFLICT(table_name, column_name, sketch_type) finds, 0 when none:
\* a UNIQUE constraint never matches a NULL column_name
ConflictingSketch(table, column, sketch_type) ==
    LET hits == {k \in 1..Len(sketches) :
                    /\ column # NullValue
                    /\ sketches[k].table_name = table
                    /\ sketches[k].column_name = column
                    /\ sketches[k].sketch_type = sketch_type}
    IN IF hits = {} THEN 0 ELSE CHOOSE k \in hits : TRUE

\* Storage.upsert_sketch: the rows of aqe_sketches after the statement
UpsertedSketches(table, column, sketch_type, data, parameters) ==
    LET k == ConflictingSketch(table, column, sketch_type)
    IN IF k = 0
       THEN Append(sketches, [table_name |-> table, column_name |-> column,
                              sketch_type |-> sketch_type, sketch_data |-> data,
                              parameters |-> parameters])
       ELSE [sketches EXCEPT ![k].sketch_data = data, ![k].parameters = parameters]

NoParameters == [epsilon |-> Dbl(0, 0), delta |-> Dbl(-1, 0)]

ParametersTried ==
    {NoParameters, [epsilon |-> Dbl(1, 0), delta |-> Dbl(-2, 0)]}

SketchTypesTried == {"hyperloglog", "countmin", "bloom"}

\* a column of the request: absent (None), or the strata column
ColumnsRequested == {NullValue, "s"}

NoData == [kind |-> "", b |-> 0, w |-> 0, d |-> 0, items |-> <<>>]

\* create_sketch, lines 247-258: HyperLogLog(b=12) over the distinct non-NULL values
HLLSketchData(table) ==
    [NoData EXCEPT !.kind = "hll", !.b = 12,
                   !.items = [v \in {x \in StrataValues : content[table][x].rows > 0}
                                 |-> 1]]

\* create_sketch, lines 260-275: CountMinSketch(epsilon, delta) with one add per
\* value of the column, or the single key 'total' when no column is given
CMSSketchData(table, column, parameters) ==
    LET c == CMSInit(parameters.epsilon, parameters.delta)
    IN [NoData EXCEPT
           !.kind = "cms", !.w = c.w, !.d = c.d,
           !.items = IF column # NullValue
                     THEN [v \in {x \in StrataValues : content[table][x].rows > 0}
                              |-> content[table][v].rows]
                     ELSE [v \in {"total"} |-> CountRows(content[table])]]

AdmIdle == [op |-> "", table |-> NoName, column |-> "", fraction |-> 0,
            sketch_type |-> "", status |-> "", base_rows |-> 0,
            data |-> NoData, parameters |-> NoParameters]

\* Storage.upsert_sketch called directly
UpsertSketchCall(table, column, sketch_type, data, parameters) ==
    /\ Len(sketches) < MaxSketches
    /\ sketches' = UpsertedSketches(table, column, sketch_type, data, parameters)
    /\ adm' = [AdmIdle EXCEPT !.op = "upsert_sketch", !.table = table, !.column = column,
                              !.sketch_type = sketch_type, !.status = "ok",
                              !.data = data, !.parameters = parameters]
    /\ UNCHANGED <<dbVars, q, content, strata>>

\* POST /sketches/create (create_sketch)
CreateSketch(table, column, sketch_type, parameters) ==
    /\ Len(sketches) < MaxSketches
    /\ LET req == [AdmIdle EXCEPT !.op = "create_sketch", !.table = table,
                                  !.column = column, !.sketch_type = sketch_type,
                                  !.parameters = parameters]
           data == IF sketch_type = "hyperloglog" THEN HLLSketchData(table)
                   ELSE CMSSketchData(table, column, parameters)
       IN IF \/ table = NoName
             \/ sketch_type = ""
             \/ (sketch_type = "hyperloglog" /\ column = NullValue)
             \/ sketch_type \notin {"hyperloglog", "countmin"}
             \/ ~TableExists(table)
          THEN /\ adm' = [req EXCEPT !.status = "error"]
               /\ UNCHANGED sketches
          ELSE /\ sketches' = UpsertedSketches(table, column, sketch_type, data, parameters)
               /\ adm' = [req EXCEPT !.status = "ok", !.data = data]
    /\ UNCHANGED <<dbVars, q, content, strata>>

\* POST /samples/create reaching create_uniform_sample, with the outcome kept
UniformSampleCall(table, fraction) ==
    /\ CreateUniformSample(table, fraction)
    /\ adm' = [AdmIdle EXCEPT !.op = "create_uniform_sample", !.table = table,
                              !.fraction = fraction,
                              !.status = IF InvalidFraction(fraction) THEN "error"
                                         ELSE "ok",
                              !.base_rows = tables[table].rows]
    /\ UNCHANGED <<content, strata, sketches>>

\* POST /samples/stratified reaching create_stratified_sample, with the outcome kept
StratifiedSampleCall(table, strata_col, total_fraction, variance_col) ==
    /\ CreateStratifiedSample(table, strata_col, total_fraction, variance_col)
    /\ adm' = [AdmIdle EXCEPT !.op = "create_stratified_sample", !.table = table,
                              !.fraction = total_fraction,
                              !.status = IF InvalidFraction(total_fraction) THEN "error"
                                         ELSE "ok",
                              !.base_rows = tables[table].rows]

\* the base table's rows by value of the strata column: [rows, var_null, sd]
ContentsTried ==
    {[v \in StrataValues \cup {NullValue} |->
         IF v = "a" THEN a ELSE IF v = "b" THEN b
         ELSE [NoRows EXCEPT !.rows = n]] :
       a \in {NoRows, [rows |-> 1, var_null |-> 0, sd |-> 0],
              [rows |-> 4, var_null |-> 1, sd |-> 2]},
       b \in {NoRows, [rows |-> 2, var_null |-> 0, sd |-> 1]},
       n \in {0, 1}}

(***************************************************************************)
(* Executor (executor.py) and the /query handler (app.py post_query).      *)
(***************************************************************************)
NeedsScaling(col) == col \in KeywordColumns

\* cursor.execute(sql): raises when the table does not exist; one result row whose
\* value is numeric unless an AVG or SUM runs over no rows
ExecSQL(sql) ==
    IF sql.kw = "" \/ ~TableExists(sql.table)
    THEN [ok |-> FALSE, numeric |-> FALSE]
    ELSE [ok |-> TRUE,
          numeric |-> sql.col = "COUNT(*)"
                        \/ (tables[sql.table].rows > 0 /\ sql.rowid = 0)
                        \/ tables[sql.table].rows >= Max2(sql.rowid, 1)]

\* executor._scale_sample_results as called by execute_query: the fractions whose
\* inverse multiplies the value of column col
ExecutorScales(plan, col, numeric) ==
    IF plan.type = "sample" /\ plan.sample_fraction > 0 /\ NeedsScaling(col) /\ numeric
    THEN <<plan.sample_fraction>>
    ELSE <<>>

\* scale_ml_optimized_results as called by post_query
MLScales(ml, col, numeric) ==
    IF ml.strategy = "sample" /\ MLRecoveredFraction(ml) > 0 /\ NeedsScaling(col) /\ numeric
    THEN <<MLRecoveredFraction(ml)>>
    ELSE <<>>

QIdle == [pc |-> "idle", sql |-> NoSQL, eps |-> [num |-> 0, inv |-> 1],
          prefer_exact |-> FALSE, use_ml |-> FALSE, explain |-> FALSE,
          ml |-> NoML, final_sql |-> NoSQL, plan |-> NoPlan, status |-> "",
          numeric |-> FALSE, scales |-> <<>>, hist_before |-> 0, steps |-> <<>>]

SQLTried ==
    {[NoSQL EXCEPT !.kw = kw, !.table = t, !.col = c] :
        kw \in {"FROM", "from"},
        t \in {BaseTable,
               BaseTable \o SampleInfix \o <<"0", "_", "0", "5">>,
               BaseTable \o SampleInfix \o <<"x">>,
               BaseTable \o SampleInfix \o <<"0">>},
        c \in ColumnsTried}
    \cup {[NoSQL EXCEPT !.col = "COUNT(*)"]}

EpsTried == {[num |-> 0, inv |-> 1], [num |-> 1, inv |-> 20], [num |-> 1, inv |-> 5]}

\* post_query, lines 77-93: the request is read
QueryReceive(sql, eps, prefer_exact, use_ml, explain) ==
    /\ q.pc = "idle"
    /\ q' = [QIdle EXCEPT !.pc = "optimize", !.sql = sql, !.eps = eps,
                          !.prefer_exact = prefer_exact, !.use_ml = use_ml,
                          !.explain = explain, !.final_sql = sql,
                          !.hist_before = Len(history)]
    /\ UNCHANGED dbVars

\* post_query, lines 95-100: ML optimization
QueryOptimize ==
    /\ q.pc = "optimize"
    /\ IF q.use_ml /\ ~q.prefer_exact
       THEN LET ml == OptimizeQuery(q.sql, q.eps)
            IN q' = [q EXCEPT !.pc = "plan", !.ml = ml, !.final_sql = ml.modified_sql,
                              !.steps = @ \o <<"feature-extract", "optimize">>]
       ELSE q' = [q EXCEPT !.pc = "plan"]
    /\ UNCHANGED dbVars

\* post_query, lines 102-111: planning, and the explain response
QueryPlan ==
    /\ q.pc = "plan"
    /\ LET r == PlannerPlan(q.final_sql, q.eps, q.prefer_exact)
       IN IF r.raised
          THEN q' = [q EXCEPT !.pc = "error", !.status = "error",
                              !.steps = @ \o <<"plan">>]
          ELSE q' = [q EXCEPT !.pc = IF q.explain THEN "done" ELSE "execute",
                              !.plan = r.plan, !.steps = @ \o <<"plan">>,
                              !.status = IF q.explain THEN "ok" ELSE ""]
    /\ UNCHANGED dbVars

\* post_query, lines 113-117: execute_query, which scales a sample plan's results
\* (and divides by the plan's fraction once more for the confidence intervals)
QueryExecute ==
    /\ q.pc = "execute"
    /\ LET r == ExecSQL(q.plan.sql)
       IN IF ~r.ok \/ (q.plan.type = "sample" /\ q.plan.sample_fraction = 0)
          THEN q' = [q EXCEPT !.pc = "error", !.status = "error",
                              !.steps = @ \o <<"execute">>]
          ELSE q' = [q EXCEPT !.pc = "scale", !.numeric = r.numeric,
                              !.scales = ExecutorScales(q.plan, q.sql.col, r.numeric),
                              !.steps = @ \o <<"execute">>
                                          \o (IF q.plan.type = "sample"
                                              THEN <<"scale">> ELSE <<>>)]
    /\ UNCHANGED dbVars

\* post_query, lines 119-143: the exact baseline for timing (its failure is
\* swallowed, its rows are dropped: it is not a step of the query) and the ML
\* result scaling
QueryMLScale ==
    /\ q.pc = "scale"
    /\ q' = [q EXCEPT !.pc = "respond",
                      !.scales = IF q.ml.strategy = "sample"
                                 THEN q.scales \o MLScales(q.ml, q.sql.col, q.numeric)
                                 ELSE q.scales,
                      !.steps = @ \o (IF q.ml.strategy = "sample"
                                      THEN <<"scale">> ELSE <<>>)]
    /\ UNCHANGED dbVars

\* post_query, lines 145-156: the response; nothing is written to the history
QueryRespond ==
    /\ q.pc = "respond"
    /\ q' = [q EXCEPT !.pc = "done", !.status = "ok"]
    /\ UNCHANGED dbVars

\* post_query returns: the response (lines 150-156) or the 500 (lines 158-163) is sent
QueryReturn ==
    /\ q.pc \in {"done", "error"}
    /\ q' = QIdle
    /\ UNCHANGED dbVars

QueryInit ==
    /\ \E n \in BaseRowsTried :
          tables = [k \in {BaseTable} |-> [rows |-> n, fraction |-> 0]]
    /\ tableStats = <<>>
    /\ aqeSamples = <<>>
    /\ history = <<>>
    /\ q = QIdle


(***************************************************************************)
(* create_uniform_sample statement by statement: the handlers share one     *)
(* connection (check_same_thread=False), so every statement of a request   *)
(* takes effect at once for the others.                                    *)
(***************************************************************************)
\* no creation in progress; successes counts the calls that returned, failed
\* tells whether a call has raised part-way, made is the row count of the table
\* the last call that returned has created
SamplerIdle == [op |-> "", table |-> NoName, fraction |-> 0, status |-> "",
                successes |-> 0, failed |-> FALSE, made |-> 0]

\* a faulty variant of the descriptor insert: an upsert on (table, sample table)
UpsertedSampleMeta(table, sample, fraction) ==
    IF \E k \in 1..Len(aqeSamples) : aqeSamples[k].sample_table = sample
    THEN aqeSamples
    ELSE Append(aqeSamples, [table_name |-> table, sample_table |-> sample,
                             sample_fraction |-> fraction])

\* _record_sample_meta, lines 138-141: INSERT INTO aqe_samples
InsertedSampleMeta(table, sample, fraction) ==
    Append(aqeSamples, [table_name |-> table, sample_table |-> sample,
                        sample_fraction |-> fraction])

\* create_uniform_sample, lines 21-25
SamplerStart(table, fraction) ==
    /\ adm.status = ""
    /\ Len(aqeSamples) < MaxSamples
    /\ TableExists(table)
    /\ ~InvalidFraction(fraction)
    /\ adm' = [adm EXCEPT !.op = "create_uniform_sample", !.table = table,
                          !.fraction = fraction, !.status = "started"]
    /\ UNCHANGED <<tables, tableStats, aqeSamples, history, q>>

\* create_uniform_sample, lines 27-28: DROP TABLE IF EXISTS
SamplerDrop ==
    /\ adm.status = "started"
    /\ LET name == adm.table \o SampleInfix \o SamplerFractionName(adm.fraction)
       IN tables' = [k \in DOMAIN tables \ {name} |-> tables[k]]
    /\ adm' = [adm EXCEPT !.status = "dropped"]
    /\ UNCHANGED <<tableStats, aqeSamples, history, q>>

\* create_uniform_sample, lines 30-42: CREATE TABLE AS SELECT, one statement
SamplerCreate ==
    /\ adm.status = "dropped"
    /\ LET name == adm.table \o SampleInfix \o SamplerFractionName(adm.fraction)
       IN \E n \in {0, FloorRows(tables[adm.table].rows, adm.fraction)} :
             /\ tables' = [k \in DOMAIN tables \cup {name} |->
                              IF k = name THEN [rows |-> n, fraction |-> adm.fraction]
                              ELSE tables[k]]
             /\ adm' = [adm EXCEPT !.status = "created", !.made = n]
    /\ UNCHANGED <<tableStats, aqeSamples, history, q>>

\* create_uniform_sample, line 45: _record_sample_meta, and the return
SamplerRecord ==
    /\ adm.status = "created"
    /\ LET name == adm.table \o SampleInfix \o SamplerFractionName(adm.fraction)
       IN /\ tableStats' = [k \in DOMAIN tableStats \cup {adm.table} |->
                               IF k = adm.table THEN tables[adm.table].rows
                               ELSE tableStats[k]]
          /\ aqeSamples' = InsertedSampleMeta(adm.table, name, adm.fraction)
    /\ adm' = [adm EXCEPT !.status = "ok", !.successes = @ + 1]
    /\ UNCHANGED <<tables, history, q>>

\* a statement raises after the DROP or after the CREATE (a locked or full
\* database): the handler answers 500 and what was done stays done
SamplerFail ==
    /\ adm.status \in {"dropped", "created"}
    /\ adm' = [adm EXCEPT !.status = "error", !.failed = TRUE]
    /\ UNCHANGED <<tables, tableStats, aqeSamples, history, q>>

\* create_sample has answered
SamplerReturn ==
    /\ adm.status \in {"ok", "error"}
    /\ adm' = [adm EXCEPT !.op = "", !.table = NoName, !.fraction = 0, !.status = ""]
    /\ UNCHANGED <<tables, tableStats, aqeSamples, history, q>>

RaceSQL == [NoSQL EXCEPT !.kw = "FROM", !.table = BaseTable, !.col = "COUNT(*)"]

RaceInit ==
    /\ QueryInit
    /\ content = <<>> /\ strata = <<>> /\ sketches = <<>>
    /\ adm = SamplerIdle

(***************************************************************************)
(* The allocation step of create_stratified_sample on analysed strata.     *)
(***************************************************************************)
AllocPops == {1, 2, 10}

AllocSds == {0, 1, 5}

AllocFractions == {10000, 100000, 500000, 900000}

\* a stratum as _analyze_strata returns it: the variance of a single row is 0
AnalysedStratum(value, pop, sd) ==
    [strata_key |-> StrataColumn, strata_value |-> value, pop_size |-> pop,
     variance |-> sd * sd, sample_size |-> 0, fraction |-> 0, weight |-> 0]

\* the lists _analyze_strata can return: ORDER BY pop_size DESC, and a variance
\* of 0.0 everywhere when no variance column is given
AnalysedTried(variance_col) ==
    LET one == {AnalysedStratum("a", p, d) : p \in AllocPops, d \in AllocSds}
        two == {AnalysedStratum("b", p, d) : p \in AllocPops, d \in AllocSds}
        ok(x) == /\ (x.pop_size = 1 => x.variance = 0)
                 /\ (~variance_col => x.variance = 0)
    IN {<<x>> : x \in {y \in one : ok(y)}}
         \cup {p \in {y \in one : ok(y)} \X {y \in two : ok(y)} :
                  p[2].pop_size <= p[1].pop_size}

AllocInit ==
    /\ tables = <<>> /\ tableStats = <<>> /\ aqeSamples = <<>> /\ history = <<>>
    /\ q = QIdle
    /\ content = <<>> /\ sketches = <<>>
    /\ \E variance_col \in BOOLEAN :
          /\ strata \in AnalysedTried(variance_col)
          /\ \E f \in AllocFractions :
                adm = [op |-> "create_stratified_sample", total_fraction |-> f,
                       variance_col |-> variance_col, analysed |-> strata,
                       status |-> "analysed"]

\* create_stratified_sample, lines 70-74: the allocation of the analysed strata
AllocateStrata ==
    /\ "analysed" \in DOMAIN adm
    /\ adm.status = "analysed"
    /\ strata' = IF adm.variance_col THEN AllocateNeyman(strata, adm.total_fraction)
                 ELSE AllocateProportional(strata, adm.total_fraction)
    /\ adm' = [adm EXCEPT !.status = "allocated"]
    /\ UNCHANGED <<tables, tableStats, aqeSamples, history, q, content, sketches>>

(***************************************************************************)
(* The learning override of MLOptimizer, run on a stored history.          *)
(***************************************************************************)
LearnTableSizes == {600, 6000}

LearnTolerance == [num |-> 1, inv |-> 20]

HistoryRowsTried ==
    [strategy : {"exact", "sample", "sketch"},
     actual_speedup : {Micro, 2 * Micro},
     actual_error : {0, 50000, 100000},
     table_size : LearnTableSizes,
     error_tolerance : {LearnTolerance}]

MaxHistory == 2

LearnIdle == [pc |-> "new", sql |-> NoSQL, features |-> <<>>, historical_perf |-> <<>>,
              strategy |-> "", confidence |-> 0, modified_sql |-> NoSQL]

LearnInit ==
    /\ \E n \in 0..MaxHistory : history \in [1..n -> HistoryRowsTried]
    /\ \E n \in LearnTableSizes :
          tables = [k \in {BaseTable} |-> [rows |-> n, fraction |-> 0]]
    /\ tableStats = <<>>
    /\ aqeSamples = <<>>
    /\ q = QIdle
    /\ learn = LearnIdle

\* optimize_query, lines 26-30: the features and the matching history
LearnExtract ==
    /\ learn.pc = "new"
    /\ \E col \in ColumnsTried :
          LET sql == [NoSQL EXCEPT !.kw = "FROM", !.table = BaseTable, !.col = col]
              features == ExtractQueryFeatures(sql, LearnTolerance)
          IN learn' = [learn EXCEPT !.pc = "extracted", !.sql = sql,
                          !.features = features,
                          !.historical_perf = GetHistoricalPerformance(features)]
    /\ UNCHANGED <<nm, eng>>

\* optimize_query, line 33
LearnChoose ==
    /\ learn.pc = "extracted"
    /\ LET choice == ChooseWithLearning(learn.features, learn.historical_perf)
       IN learn' = [learn EXCEPT !.pc = "chosen", !.strategy = choice.strategy,
                                 !.confidence = choice.confidence]
    /\ UNCHANGED <<nm, eng>>

\* optimize_query, lines 36-50: the transformed SQL is returned
LearnTransform ==
    /\ learn.pc = "chosen"
    /\ learn.sql # NoSQL
    /\ learn' = [learn EXCEPT
                    !.pc = "returned",
                    !.modified_sql = ApplyTransformations(learn.sql, learn.strategy,
                                                          learn.features).modified_sql]
    /\ UNCHANGED <<nm, eng>>

\* the characters the class [^HAVING^ORDER^LIMIT] refuses, under re.IGNORECASE
ExcludedChars ==
    {"H", "A", "V", "I", "N", "G", "O", "R", "D", "E", "L", "M", "T", "^",
     "h", "a", "v", "i", "n", "g", "o", "r", "d", "e", "l", "m", "t"}

\* the group the class matches at the start of text: its longest prefix free of
\* the excluded characters
RECURSIVE ClassPrefix(_)
ClassPrefix(text) ==
    IF text = <<>> \/ Head(text) \in ExcludedChars THEN <<>>
    ELSE <<Head(text)>> \o ClassPrefix(Tail(text))

\* _extract_query_features, lines 100-106, on the text that follows "GROUP BY ":
\* len(group.split(',')) when the regex matches, 0 (the initial value) when the
\* first character is refused and the regex finds nothing
GroupByCardinality(text) ==
    LET group == ClassPrefix(text)
    IN IF group = <<>> THEN 0
       ELSE Len(SelectSeq(group, LAMBDA c : c = ",")) + 1

GroupByColumnsTried == {<<"x">>, <<"y">>, <<"c", "i">>, <<"i", "d">>}

GroupByTailsTried ==
    {<<>>, <<" ", "O", "R", "D", "E", "R", " ", "B", "Y", " ", "x">>,
     <<" ", "L", "I", "M", "I", "T", " ", "3">>}

MaxGroupBy == 3

\* "a, b, c"
RECURSIVE JoinColumns(_)
JoinColumns(items) ==
    IF Len(items) = 1 THEN items[1]
    ELSE items[1] \o <<",", " ">> \o JoinColumns(Tail(items))

GroupByInit ==
    \E n \in 1..MaxGroupBy : \E items \in [1..n -> GroupByColumnsTried] :
       \E tail \in GroupByTailsTried :
          learn = [pc |-> "new", items |-> items, text |-> JoinColumns(items) \o tail,
                   group_by_cardinality |-> 0]

\* _extract_query_features, lines 100-106
ExtractGroupBy ==
    /\ learn.pc = "new"
    /\ learn' = [learn EXCEPT !.pc = "extracted",
                              !.group_by_cardinality = GroupByCardinality(learn.text)]
    /\ UNCHANGED <<nm, eng>>

\* the feature vectors the base rules are run on
RuleTableSizes == {500, 1000, 1001, 5000, 5001, 10000, 10001}

RuleTolerances ==
    {[num |-> 0, inv |-> 1], [num |-> 1, inv |-> 1000], [num |-> 1, inv |-> 500],
     [num |-> 1, inv |-> 20]}

FeatureVectorsTried ==
    [table_name : {BaseTable}, table_size : RuleTableSizes, has_count : BOOLEAN,
     has_sum : BOOLEAN, has_avg : BOOLEAN, has_distinct : BOOLEAN,
     has_group_by : BOOLEAN, group_by_cardinality : {0, 1, 2},
     error_tolerance : RuleTolerances]

\* a history row of a much larger table: it matches none of the feature vectors
FarRow ==
    [strategy |-> "sample", actual_speedup |-> 5 * Micro, actual_error |-> 0,
     table_size |-> 1000000, error_tolerance |-> LearnTolerance]

RulesInit ==
    /\ history \in {<<>>, <<FarRow>>}
    /\ tables = [k \in {BaseTable} |-> [rows |-> 0, fraction |-> 0]]
    /\ tableStats = <<>>
    /\ aqeSamples = <<>>
    /\ q = QIdle
    /\ \E features \in FeatureVectorsTried :
          /\ (features.group_by_cardinality > 0 => features.has_group_by)
          /\ learn = [LearnIdle EXCEPT !.pc = "featured", !.features = features]

\* optimize_query, line 30: the matching history of a feature vector
LearnHistory ==
    /\ learn.pc = "featured"
    /\ learn' = [learn EXCEPT !.pc = "extracted",
                              !.historical_perf = GetHistoricalPerformance(learn.features)]
    /\ UNCHANGED <<nm, eng>>

(***************************************************************************)
(* ApproximateQueryEngine (src/engine.py, src/query_processor.py).         *)
(***************************************************************************)
EngineRowsTried == {0, 1, 2, 3, 10, 100, 1000}

\* accuracies in hundredths
AccuraciesTried == {0, 1, 10, 50, 90, 99, 100}

\* QueryProcessor._get_sample_size: z_score^2 * 0.25 = 0.9604; the values
\* int(numerator / denominator) can take, the float quotient of two unequal
\* terms falling on or just below a whole quotient
GetSampleSize(total_rows, accuracy) ==
    LET margin_of_error == 100 - accuracy
        numerator == 9604 * total_rows
        denominator == margin_of_error * margin_of_error * (total_rows - 1) + 9604
        quotient == numerator \div denominator
    IN IF numerator = 0 THEN {0}
       ELSE IF numerator % denominator = 0 /\ numerator # denominator
       THEN {Min2(quotient - 1, total_rows), Min2(quotient, total_rows)}
       ELSE {Min2(quotient, total_rows)}

\* the values int(sample_size * (total_rows / sample_size)) can take: the float
\* quotient is rounded, so the product is total_rows or just below it when
\* sample_size does not divide total_rows
ScaledCounts(total_rows, sample_size) ==
    IF total_rows % sample_size = 0 THEN {total_rows}
    ELSE {total_rows - 1, total_rows}

EngineInit ==
    \E n \in EngineRowsTried, a \in AccuraciesTried :
        eng = [pc |-> "new", total_rows |-> n, accuracy |-> a, exact |-> 0,
               approximate |-> 0, sample_size |-> 0]

\* run_query('COUNT', column, mode='exact'): exact_query, lines 97-105
RunQueryExact ==
    /\ eng.pc = "new"
    /\ eng' = [eng EXCEPT !.pc = "exact", !.exact = eng.total_rows]
    /\ UNCHANGED <<nm, learn>>

\* run_query('COUNT', column, mode='approximate', accuracy): approximate_query,
\* lines 43-56; the division by a sample size of 0 raises ZeroDivisionError
RunQueryApproximate ==
    /\ eng.pc = "exact"
    /\ \E sample_size \in GetSampleSize(eng.total_rows, eng.accuracy) :
          IF sample_size = 0
          THEN eng' = [eng EXCEPT !.pc = "raised"]
          ELSE \E result \in ScaledCounts(eng.total_rows, sample_size) :
                  eng' = [eng EXCEPT !.pc = "returned", !.approximate = result,
                                     !.sample_size = sample_size]
    /\ UNCHANGED <<nm, learn>>

(***************************************************************************)
(* Sample names: the Sampler builds them, the Planner parses them.         *)
(***************************************************************************)
NameTablesTried == {<<"t">>, <<"a", "_", "b">>}

NameColumnsTried == {<<"s">>, <<"c", "_", "d">>}

NameFractionsTried == {500, 50000, 123400, 500000, 999600}

NoParsed == [original |-> NoName, fraction |-> 0, is_sample |-> FALSE]

NamesInit ==
    \E kind \in {"uniform", "stratified"}, t \in NameTablesTried,
       c \in NameColumnsTried, f \in NameFractionsTried :
        nm = [pc |-> "new", kind |-> kind, table |-> t, strata_col |-> c,
              fraction |-> f, name |-> NoName, parsed |-> NoParsed,
              planner_name |-> NoName, ml_name |-> NoName]

\* create_uniform_sample, line 24, and create_stratified_sample, line 77
SamplerBuildName ==
    /\ nm.pc = "new"
    /\ nm' = [nm EXCEPT
                 !.pc = "named",
                 !.name = IF nm.kind = "uniform"
                          THEN nm.table \o SampleInfix \o SamplerFractionName(nm.fraction)
                          ELSE nm.table \o StratInfix \o nm.strata_col \o <<"_">>
                                   \o SamplerFractionName(nm.fraction)]
    /\ UNCHANGED <<eng, learn>>

\* Planner.plan, line 39
PlannerParseName ==
    /\ nm.pc = "named"
    /\ nm' = [nm EXCEPT !.pc = "parsed", !.parsed = ParseSampleTableName(nm.name)]
    /\ UNCHANGED <<eng, learn>>

\* the sample table looked up for the fraction of a uniform sample's descriptor:
\* Planner._evaluate_sample_strategy, line 226, and
\* MLOptimizer._apply_transformations, line 215
LookupSampleNames ==
    /\ nm.pc = "parsed"
    /\ nm.kind = "uniform"
    /\ nm' = [nm EXCEPT
                 !.pc = "looked",
                 !.planner_name = nm.table \o SampleInfix \o PlannerFractionName(nm.fraction),
                 !.ml_name = nm.table \o SampleInfix \o MLFractionName(nm.fraction)]
    /\ UNCHANGED <<eng, learn>>

(***************************************************************************)
(* The specifications.                                                     *)
(***************************************************************************)
StoreInit ==
    /\ \E c \in ContentsTried :
          /\ content = [k \in {BaseTable} |-> c]
          /\ tables = [k \in {BaseTable} |-> [rows |-> CountRows(c), fraction |-> 0]]
    /\ tableStats = <<>>
    /\ aqeSamples = <<>>
    /\ history = <<>>
    /\ q = QIdle
    /\ strata = <<>>
    /\ sketches = <<>>
    /\ adm = AdmIdle

StoreFrozen == content = <<>> /\ strata = <<>> /\ sketches = <<>> /\ adm = AdmIdle

FnFrozen == nm = <<>> /\ eng = <<>> /\ learn = <<>>

HLLFrozen ==
    /\ hll = <<NoHLL, NoHLL>> /\ hllWire = NoWire /\ hllOut = NoOut /\ hllLast = HLLIdle

CMSFrozen ==
    /\ cms = NoCMS /\ cmsHash = <<>> /\ cmsTrue = <<>> /\ cmsWire = NoCMSWire
    /\ cmsOut = [ok |-> FALSE, sk |-> NoCMS]
    /\ cmsLast = [op |-> "new", key |-> "", ok |-> TRUE, value |-> 0, adds |-> 0]

QueryFrozen ==
    /\ tables = <<>> /\ tableStats = <<>> /\ aqeSamples = <<>> /\ history = <<>>
    /\ q = QIdle

InitHLL == HLLInitState /\ CMSFrozen /\ QueryFrozen /\ StoreFrozen /\ FnFrozen

NextHLL ==
    \/ \E i \in 1..2, h \in HashInputs :
          HLLAddCall(i, h) /\ UNCHANGED <<cmsVars, dbVars, q, storeVars, fnVars>>
    \/ \E i \in 1..2, j \in 1..2 :
          HLLMergeCall(i, j) /\ UNCHANGED <<cmsVars, dbVars, q, storeVars, fnVars>>
    \/ \E i \in 1..2 : HLLMergeRoundTripCall(i) /\ UNCHANGED <<cmsVars, dbVars, q, storeVars, fnVars>>
    \/ \E i \in 1..2 : HLLSerializeCall(i) /\ UNCHANGED <<cmsVars, dbVars, q, storeVars, fnVars>>
    \/ \E n \in {0, 4, 5, Len(hllWire.data) - 1} :
          HLLTruncate(n) /\ UNCHANGED <<cmsVars, dbVars, q, storeVars, fnVars>>
    \/ \E byte \in {0, 7} : HLLExtend(byte) /\ UNCHANGED <<cmsVars, dbVars, q, storeVars, fnVars>>
    \/ HLLDeserializeCall /\ UNCHANGED <<cmsVars, dbVars, q, storeVars, fnVars>>

SpecHLL == InitHLL /\ [][NextHLL]_vars

InitCMS == CMSInitState /\ HLLFrozen /\ QueryFrozen /\ StoreFrozen /\ FnFrozen

NextCMS ==
    \/ \E key \in CMSKeys, count \in CMSCounts :
          CMSAddCall(key, count) /\ UNCHANGED <<hllVars, dbVars, q, storeVars, fnVars>>
    \/ \E key \in CMSKeys : CMSEstimateCall(key) /\ UNCHANGED <<hllVars, dbVars, q, storeVars, fnVars>>
    \/ CMSSerializeCall /\ UNCHANGED <<hllVars, dbVars, q, storeVars, fnVars>>
    \/ \E n \in {0, 23, 24, Len(cmsWire.data) - 1} :
          CMSTruncate(n) /\ UNCHANGED <<hllVars, dbVars, q, storeVars, fnVars>>
    \/ \E byte \in {0, 7} : CMSExtend(byte) /\ UNCHANGED <<hllVars, dbVars, q, storeVars, fnVars>>
    \/ CMSDeserializeCall /\ UNCHANGED <<hllVars, dbVars, q, storeVars, fnVars>>

SpecCMS == InitCMS /\ [][NextCMS]_vars

Init == QueryInit /\ HLLFrozen /\ CMSFrozen /\ StoreFrozen /\ FnFrozen

Next ==
    \/ \E f \in FractionsTried :
          CreateUniformSample(BaseTable, f) /\ UNCHANGED <<hllVars, cmsVars, storeVars, fnVars>>
    \/ \E sql \in SQLTried, eps \in EpsTried, pe \in BOOLEAN, ml \in BOOLEAN,
          ex \in BOOLEAN :
          QueryReceive(sql, eps, pe, ml, ex) /\ UNCHANGED <<hllVars, cmsVars, storeVars, fnVars>>
    \/ QueryOptimize /\ UNCHANGED <<hllVars, cmsVars, storeVars, fnVars>>
    \/ QueryPlan /\ UNCHANGED <<hllVars, cmsVars, storeVars, fnVars>>
    \/ QueryExecute /\ UNCHANGED <<hllVars, cmsVars, storeVars, fnVars>>
    \/ QueryMLScale /\ UNCHANGED <<hllVars, cmsVars, storeVars, fnVars>>
    \/ QueryRespond /\ UNCHANGED <<hllVars, cmsVars, storeVars, fnVars>>
    \/ QueryReturn /\ UNCHANGED <<hllVars, cmsVars, storeVars, fnVars>>

Spec == Init /\ [][Next]_vars

InitStore == StoreInit /\ HLLFrozen /\ CMSFrozen /\ FnFrozen

NextStore ==
    \/ \E f \in {0, 500000} :
          UniformSampleCall(BaseTable, f) /\ UNCHANGED <<hllVars, cmsVars, fnVars>>
    \/ \E f \in {500000, Micro}, variance_col \in BOOLEAN :
          /\ StratifiedSampleCall(BaseTable, StrataColumn, f, variance_col)
          /\ UNCHANGED <<hllVars, cmsVars, fnVars>>
    \/ \E sketch_type \in SketchTypesTried :
          /\ CreateSketch(BaseTable, "s", sketch_type, NoParameters)
          /\ UNCHANGED <<hllVars, cmsVars, fnVars>>

SpecStore == InitStore /\ [][NextStore]_vars

NextSketch ==
    \/ \E column \in ColumnsRequested, sketch_type \in SketchTypesTried,
          parameters \in ParametersTried :
          /\ CreateSketch(BaseTable, column, sketch_type, parameters)
          /\ UNCHANGED <<hllVars, cmsVars, fnVars>>
    \/ \E column \in ColumnsRequested, parameters \in ParametersTried :
          /\ UpsertSketchCall(BaseTable, column, "countmin",
                              CMSSketchData(BaseTable, column, parameters), parameters)
          /\ UNCHANGED <<hllVars, cmsVars, fnVars>>

SpecSketch == InitStore /\ [][NextSketch]_vars

InitAlloc == AllocInit /\ HLLFrozen /\ CMSFrozen /\ FnFrozen

NextAlloc == AllocateStrata /\ UNCHANGED <<hllVars, cmsVars, fnVars>>

SpecAlloc == InitAlloc /\ [][NextAlloc]_vars

InitRace == RaceInit /\ HLLFrozen /\ CMSFrozen /\ FnFrozen

NextRace ==
    \/ SamplerStart(BaseTable, 50000)
          /\ UNCHANGED <<hllVars, cmsVars, content, strata, sketches, fnVars>>
    \/ SamplerDrop /\ UNCHANGED <<hllVars, cmsVars, content, strata, sketches, fnVars>>
    \/ SamplerCreate /\ UNCHANGED <<hllVars, cmsVars, content, strata, sketches, fnVars>>
    \/ SamplerRecord /\ UNCHANGED <<hllVars, cmsVars, content, strata, sketches, fnVars>>
    \/ SamplerFail /\ UNCHANGED <<hllVars, cmsVars, content, strata, sketches, fnVars>>
    \/ SamplerReturn /\ UNCHANGED <<hllVars, cmsVars, content, strata, sketches, fnVars>>
    \/ \E eps \in {[num |-> 1, inv |-> 20], [num |-> 1, inv |-> 5]} :
          /\ QueryReceive(RaceSQL, eps, FALSE, FALSE, FALSE)
          /\ UNCHANGED <<hllVars, cmsVars, storeVars, fnVars>>
    \/ QueryOptimize /\ UNCHANGED <<hllVars, cmsVars, storeVars, fnVars>>
    \/ QueryPlan /\ UNCHANGED <<hllVars, cmsVars, storeVars, fnVars>>
    \/ QueryExecute /\ UNCHANGED <<hllVars, cmsVars, storeVars, fnVars>>
    \/ QueryMLScale /\ UNCHANGED <<hllVars, cmsVars, storeVars, fnVars>>
    \/ QueryRespond /\ UNCHANGED <<hllVars, cmsVars, storeVars, fnVars>>
    \/ QueryReturn /\ UNCHANGED <<hllVars, cmsVars, storeVars, fnVars>>

SpecRace == InitRace /\ [][NextRace]_vars

InitNames ==
    /\ NamesInit /\ eng = <<>> /\ learn = <<>>
    /\ HLLFrozen /\ CMSFrozen /\ QueryFrozen /\ StoreFrozen

NextNames ==
    \/ SamplerBuildName /\ UNCHANGED <<hllVars, cmsVars, dbVars, q, storeVars>>
    \/ PlannerParseName /\ UNCHANGED <<hllVars, cmsVars, dbVars, q, storeVars>>
    \/ LookupSampleNames /\ UNCHANGED <<hllVars, cmsVars, dbVars, q, storeVars>>

SpecNames == InitNames /\ [][NextNames]_vars

InitLearn == LearnInit /\ nm = <<>> /\ eng = <<>> /\ HLLFrozen /\ CMSFrozen /\ StoreFrozen

NextLearn ==
    \/ LearnExtract /\ UNCHANGED <<hllVars, cmsVars, dbVars, q, storeVars>>
    \/ LearnChoose /\ UNCHANGED <<hllVars, cmsVars, dbVars, q, storeVars>>
    \/ LearnTransform /\ UNCHANGED <<hllVars, cmsVars, dbVars, q, storeVars>>

SpecLearn == InitLearn /\ [][NextLearn]_vars

InitRules == RulesInit /\ nm = <<>> /\ eng = <<>> /\ HLLFrozen /\ CMSFrozen /\ StoreFrozen

NextRules ==
    \/ LearnHistory /\ UNCHANGED <<hllVars, cmsVars, dbVars, q, storeVars>>
    \/ LearnChoose /\ UNCHANGED <<hllVars, cmsVars, dbVars, q, storeVars>>

SpecRules == InitRules /\ [][NextRules]_vars

InitGroupBy ==
    /\ GroupByInit /\ nm = <<>> /\ eng = <<>>
    /\ HLLFrozen /\ CMSFrozen /\ QueryFrozen /\ StoreFrozen

NextGroupBy == ExtractGroupBy /\ UNCHANGED <<hllVars, cmsVars, dbVars, q, storeVars>>

SpecGroupBy == InitGroupBy /\ [][NextGroupBy]_vars

InitEngine ==
    /\ EngineInit /\ nm = <<>> /\ learn = <<>>
    /\ HLLFrozen /\ CMSFrozen /\ QueryFrozen /\ StoreFrozen

NextEngine ==
    \/ RunQueryExact /\ UNCHANGED <<hllVars, cmsVars, dbVars, q, storeVars>>
    \/ RunQueryApproximate /\ UNCHANGED <<hllVars, cmsVars, dbVars, q, storeVars>>

SpecEngine == InitEngine /\ [][NextEngine]_vars

(***************************************************************************)
(* Claims on the query path.                                               *)
(***************************************************************************)
\* C1: every plan Planner.plan returns has type exact or carries an
\* estimated_error that is <= max_rel_error, whatever the SQL, the tolerance and
\* the metadata, a direct query on a sample-named table included.
C1_PlanWithinTolerance ==
    q.plan # NoPlan =>
        \/ q.plan.type = "exact"
        \/ ErrLeq(q.plan.estimated_error, q.eps)

\* C2: Planner.plan never raises: a request that is being planned never ends in
\* the error response at that step, also when the base table's recorded
\* row_count is 0 while a sample descriptor and its sample table exist.
C2_PlanNeverRaises == [][q.pc = "plan" => q'.pc # "error"]_vars

\* C3: a query that executed its plan (explain = false) has appended one row to
\* the performance history by the time its response is built.
C3_HistoryGrowsByOne ==
    (q.pc = "done" /\ ~q.explain /\ q.status = "ok") =>
        Len(history) = q.hist_before + 1

\* C4: in the response of a query answered from a sample table of fraction f, a
\* numeric column whose name contains COUNT, SUM, TOTAL, REVENUE or ORDERS was
\* multiplied by 1/f exactly once, whatever use_ml, the ML strategy and the plan
\* type.
C4_ScaledExactlyOnce ==
    (/\ q.pc = "done" /\ ~q.explain /\ q.status = "ok"
     /\ NeedsScaling(q.sql.col) /\ q.numeric
     /\ tables[q.plan.sql.table].fraction > 0) =>
        q.scales = <<tables[q.plan.sql.table].fraction>>

\* the steps of a query in the order the handler is to run them
StepOrder == <<"feature-extract", "optimize", "plan", "execute", "scale", "record">>

StepRank(step) == CHOOSE k \in 1..Len(StepOrder) : StepOrder[k] = step

\* C17: within a query the steps run strictly in the order feature-extract,
\* optimize, plan, execute, scale, record: each step runs after the previous
\* one, scaling only after execution, nothing after plan when explain = true,
\* and a query that executed its plan ends with the record step.
C17_StepsInOrder ==
    /\ \A i, j \in 1..Len(q.steps) :
          i < j => StepRank(q.steps[i]) <= StepRank(q.steps[j])
    /\ (q.explain /\ q.steps # <<>>) => StepRank(q.steps[Len(q.steps)]) <= 3
    /\ (q.pc = "done" /\ ~q.explain /\ q.status = "ok") =>
          q.steps[Len(q.steps)] = "record"

\* C18: Planner.plan checks, in this order, no table (exact), a sample-named
\* table (sample plan, SQL not rewritten), prefer_exact (exact): with
\* prefer_exact = true the plan is exact with the SQL unchanged for every table
\* not named as a sample, whatever the stats and the samples, and a sample
\* plan is returned only for a directly queried sample table.
C18_PreferExactOrder ==
    q.plan # NoPlan =>
        LET table == ExtractTableName(q.final_sql)
            named == ParseSampleTableName(table).is_sample
        IN /\ table = NoName => (q.plan.type = "exact" /\ q.plan.sql = q.final_sql)
           /\ (table # NoName /\ named) =>
                 /\ q.plan.type = "sample" /\ q.plan.sql = q.final_sql
                 /\ q.plan.sample_table = table
           /\ (q.prefer_exact /\ ~named) =>
                 (q.plan.type = "exact" /\ q.plan.sql = q.sql)
           /\ (q.prefer_exact /\ q.plan.type = "sample") => named

C18_Witness ==
    /\ q.plan # NoPlan /\ q.prefer_exact /\ q.plan.type = "exact"
    /\ ExtractTableName(q.final_sql) = BaseTable
    /\ BaseTable \in DOMAIN tableStats
    /\ GetTableStats(BaseTable).best_sample_fraction > 0
    /\ ~PlannerPlan(q.final_sql, q.eps, FALSE).raised
    /\ PlannerPlan(q.final_sql, q.eps, FALSE).plan.type = "sample"

\* C23: in a query with use_ml = true the Planner validates the optimizer's
\* choice against the error budget: when the optimization's estimated_error
\* exceeds max_rel_error the SQL executed is the original SQL, so no approximate
\* SQL with an estimated error above max_rel_error is executed.
C23_PlannerValidatesChoice ==
    (/\ q.pc \in {"scale", "respond", "done"} /\ ~q.explain /\ q.use_ml /\ q.ml # NoML
     /\ EstimateAbove(q.ml.estimated_error, q.eps)) =>
        q.plan.sql = q.sql

\* C29: every plan of type sample Planner.plan returns carries a
\* sample_fraction strictly between 0 and 1, for every table name the SQL can
\* contain, so the scale factor 1 / sample_fraction is defined and executing the
\* plan never fails on the fraction.
C29_SampleFractionInRange ==
    (q.plan # NoPlan /\ q.plan.type = "sample") =>
        (q.plan.sample_fraction > 0 /\ q.plan.sample_fraction < 1000000)

\* C30: when optimize_query returns strategy sample the modified SQL restricts
\* the read to a sample (the prebuilt sample table, or the ROWID predicate with
\* modulus floor(1 / f)) for every spelling of the FROM clause the table name was
\* extracted from, so results are multiplied by 1 / f only when the SQL sampled.
C30_SampleSQLSamples ==
    (q.ml # NoML /\ q.ml.strategy = "sample") =>
        \/ /\ q.ml.modified_sql.table # q.sql.table
           /\ q.ml.modified_sql.table \in DOMAIN tables
           /\ tables[q.ml.modified_sql.table].fraction > 0
        \/ /\ q.ml.modified_sql.table = q.sql.table
           /\ q.ml.modified_sql.rowid = 1000000 \div MLRecoveredFraction(q.ml)

(***************************************************************************)
(* Claims on the metadata store and the sampler.                           *)
(***************************************************************************)
SketchKey(r) == <<r.table_name, r.column_name, r.sketch_type>>

\* C11: after any sequence of create_sketch / upsert_sketch calls the sketch table
\* holds at most one record per (table, column, sketch_type), keys with a NULL
\* column included, and the record of the key last written carries the payload
\* and parameters of that call.
C11_OneSketchPerKey ==
    /\ \A i, j \in 1..Len(sketches) :
          i # j => SketchKey(sketches[i]) # SketchKey(sketches[j])
    /\ adm.status = "ok" =>
          \E k \in 1..Len(sketches) :
             /\ SketchKey(sketches[k]) = <<adm.table, adm.column, adm.sketch_type>>
             /\ sketches[k].sketch_data = adm.data
             /\ sketches[k].parameters = adm.parameters

\* the request r has an invalid argument: a fraction outside (0, 1) or a sketch
\* type other than hyperloglog and countmin
InvalidArgument(r) ==
    \/ /\ r.op \in {"create_uniform_sample", "create_stratified_sample"}
       /\ (r.fraction <= 0 \/ r.fraction >= 1000000)
    \/ /\ r.op = "create_sketch"
       /\ r.sketch_type \notin {"hyperloglog", "countmin"}

\* C12: a request with an invalid argument fails with an error and leaves sample
\* tables, sample descriptors, stratum records, table stats and sketch records
\* as they were.
C12_InvalidArgumentNoChange ==
    [][InvalidArgument(adm') =>
          /\ adm'.status = "error"
          /\ UNCHANGED <<tables, content, aqeSamples, strata, tableStats, sketches>>]_vars

C12_Witness ==
    /\ InvalidArgument(adm) /\ adm.status = "error"
    /\ aqeSamples # <<>> /\ strata # <<>> /\ sketches # <<>>
    /\ BaseTable \in DOMAIN tableStats

\* C13: the Planner's parser applied to the name the Sampler builds for a uniform
\* sample of (T, f) or a stratified sample of (T, S, f), f in (0, 1), reports
\* is_sample = true, original table T and fraction f.
C13_NameRoundTrip ==
    nm.pc = "parsed" =>
        nm.parsed = [original |-> nm.table, fraction |-> nm.fraction, is_sample |-> TRUE]

\* C24: for every fraction f in (0, 1) the Sampler, the Planner and the
\* MLOptimizer render f to the same name component: the table
\* create_uniform_sample(T, f) creates is the one the Planner and the
\* MLOptimizer look up for that fraction.
C24_SameFractionName ==
    nm.pc = "looked" => (nm.planner_name = nm.name /\ nm.ml_name = nm.name)

\* C25: under every interleaving of a query with a concurrent
\* create_uniform_sample on the same (table, fraction), a query whose plan is of
\* type sample never executes against a sample table that is missing or not
\* completely written: the table the Planner checked exists when the plan is
\* executed.
C25_SampleTableThereAtExecution ==
    [][(q.pc = "execute" /\ q'.pc # "execute" /\ q.plan.type = "sample") =>
          q.plan.sql.table \in DOMAIN tables]_vars

C27_NeymanAllocation ==
    ("analysed" \in DOMAIN adm /\ adm.status = "allocated" /\ adm.variance_col) =>
        LET a == adm.analysed
            f == adm.total_fraction
            sd(k) == CHOOSE r \in 0..a[k].variance : r * r = a[k].variance
            N == IF Len(a) = 1 THEN a[1].pop_size ELSE a[1].pop_size + a[2].pop_size
            W == IF Len(a) = 1 THEN a[1].pop_size * sd(1)
                 ELSE a[1].pop_size * sd(1) + a[2].pop_size * sd(2)
        IN /\ Len(strata) = Len(a)
           /\ \A k \in 1..Len(a) :
                 /\ strata[k].sample_size =
                       IF W > 0
                       THEN Min2((N * f * a[k].pop_size * sd(k)) \div (Micro * W),
                                 a[k].pop_size)
                       ELSE (a[k].pop_size * f) \div Micro
                 /\ strata[k].sample_size >= 0
                 /\ strata[k].sample_size <= a[k].pop_size
                 /\ strata[k].fraction <= Micro

\* an allocation that the cap has cut down to the stratum
C27_Witness ==
    /\ "analysed" \in DOMAIN adm /\ adm.status = "allocated" /\ adm.variance_col
    /\ Len(strata) = 2
    /\ strata[2].sample_size = strata[2].pop_size
    /\ strata[2].fraction = Micro
    /\ (adm.analysed[1].pop_size + adm.analysed[2].pop_size) * adm.total_fraction
          > adm.analysed[2].pop_size * Micro
    /\ strata[1].sample_size = 0

\* the stratified samples materialized once: descriptors whose sample table no
\* other descriptor names
StratifiedOnce ==
    {k \in 1..Len(aqeSamples) :
        /\ "strata_column" \in DOMAIN aqeSamples[k]
        /\ \A j \in 1..Len(aqeSamples) :
              aqeSamples[j].sample_table = aqeSamples[k].sample_table => j = k}

StrataOf(sample_table) ==
    SelectSeq(strata, LAMBDA r : r.sample_table = sample_table)

\* C14: after create_stratified_sample every stratum record holds the achieved
\* values: sample_size is the number of rows of the stratum in the materialized
\* table, fraction is sample_size / pop_size, and the sample sizes sum to the
\* materialized row count.
C14_StrataAchieved ==
    \A k \in StratifiedOnce :
       LET name == aqeSamples[k].sample_table
           rs == StrataOf(name)
       IN /\ \A i \in 1..Len(rs) :
                /\ rs[i].sample_size = content[name][rs[i].strata_value].rows
                /\ rs[i].fraction = (rs[i].sample_size * Micro) \div rs[i].pop_size
          /\ SumField(rs, [r \in {rs[i] : i \in 1..Len(rs)} |-> r.sample_size])
                = tables[name].rows

\* C15: the pop_size values of a stratified sample's stratum records sum to the
\* row count of the base table, rows with a NULL strata or variance column
\* included.
C15_PopSizesSumToBase ==
    \A k \in StratifiedOnce :
       LET rs == StrataOf(aqeSamples[k].sample_table)
       IN SumField(rs, [r \in {rs[i] : i \in 1..Len(rs)} |-> r.pop_size])
             = tables[aqeSamples[k].table_name].rows

\* C16: after a successful sample creation on T, uniform or stratified, the
\* table-stats entry of T exists and holds T's row count at creation time.
C16_StatsRefreshed ==
    (/\ adm.op \in {"create_uniform_sample", "create_stratified_sample"}
     /\ adm.status = "ok") =>
        /\ adm.table \in DOMAIN tableStats
        /\ tableStats[adm.table] = adm.base_rows

(***************************************************************************)
(* Claims on the engine and on the learning override.                      *)
(***************************************************************************)
\* C19: for every dataset and accuracy, run_query('COUNT', column) in approximate
\* mode returns a result, rather than failing, and the result is never greater
\* than the result of exact mode.
C19_ApproximateCountReturns ==
    eng # <<>> =>
        /\ eng.pc # "raised"
        /\ eng.pc = "returned" => eng.approximate <= eng.exact

\* the decision tree of the base rules, read top to bottom: eps is above 0.001
\* when 1000 * num > inv
RuleTree(f) ==
    LET above == 1000 * f.error_tolerance.num > f.error_tolerance.inv
    IN CASE f.table_size <= 1000 -> <<"exact", 950>>
         [] f.table_size > 1000 /\ f.has_distinct /\ f.has_count /\ above -> <<"sketch", 900>>
         [] f.table_size > 1000 /\ ~(f.has_distinct /\ f.has_count /\ above)
               /\ f.has_group_by /\ above ->
               IF f.table_size > 10000 /\ f.group_by_cardinality > 1
               THEN <<"stratified", 850>> ELSE <<"sketch", 800>>
         [] f.table_size > 5000 /\ above /\ ~f.has_group_by
               /\ ~(f.has_distinct /\ f.has_count)
               /\ (f.has_count \/ f.has_sum \/ f.has_avg) -> <<"sample", 850>>
         [] f.table_size > 1000 /\ f.table_size <= 5000 /\ above /\ ~f.has_group_by
               /\ ~(f.has_distinct /\ f.has_count)
               /\ (f.has_count \/ f.has_sum) -> <<"sample", 750>>
         [] OTHER -> <<"exact", 600>>

\* C21: with no matching history the strategy and the confidence MLOptimizer
\* chooses are those of the decision tree (exact 0.95 up to 1000 rows, sketch
\* 0.90, stratified 0.85 or sketch 0.80, sample 0.85, sample 0.75, else exact
\* 0.60) for every feature vector; eps <= 0.001 always yields exact.
C21_BaseRulesFollowTree ==
    (learn # <<>> /\ learn.pc = "chosen" /\ learn.historical_perf = <<>>) =>
        /\ <<learn.strategy, learn.confidence>> = RuleTree(learn.features)
        /\ (1000 * learn.features.error_tolerance.num
               <= learn.features.error_tolerance.inv) => learn.strategy = "exact"

C21_Witness ==
    /\ learn # <<>> /\ learn.pc = "chosen" /\ learn.historical_perf = <<>>
    /\ history # <<>>
    /\ learn.features.has_distinct /\ learn.features.has_count
    /\ learn.features.has_group_by /\ learn.features.table_size > 10000
    /\ learn.features.group_by_cardinality > 1
    /\ learn.strategy = "sketch" /\ learn.confidence = 900

\* C22: for a table of at most 1000 rows optimize_query returns strategy exact
\* with the SQL unchanged, whatever rows the performance history holds.
C22_SmallTableBypass ==
    (learn # <<>> /\ learn.pc = "returned" /\ learn.features.table_size <= 1000) =>
        (learn.strategy = "exact" /\ learn.modified_sql = learn.sql)

\* C28: for every SQL string with a GROUP BY clause the extracted
\* group_by_cardinality is the number of comma-separated items between GROUP BY
\* and the next HAVING, ORDER, LIMIT or the end, whatever letters the column
\* names contain.
C28_GroupByCardinality ==
    (learn # <<>> /\ learn.pc = "extracted" /\ "items" \in DOMAIN learn) =>
        learn.group_by_cardinality = Len(learn.items)

\* the strategies of the matching history whose score no other one exceeds
TopScoring(historical_perf) ==
    LET S == {historical_perf[k].strategy : k \in 1..Len(historical_perf)}
    IN {s \in S : \A o \in S :
           ScoreTimesCount(StrategyPerf(historical_perf, s))
               * StrategyPerf(historical_perf, o).count
             >= ScoreTimesCount(StrategyPerf(historical_perf, o))
               * StrategyPerf(historical_perf, s).count}

\* C20: the learning override chooses the highest-scoring strategy of the matching
\* history (score 0.6 * avg_speedup - 0.4 * avg_error) when that strategy's
\* avg_error <= 1.2 * error_tolerance, and the base-rule strategy otherwise: a
\* lower-scoring strategy never replaces the base strategy.
C20_OverrideByTopScorer ==
    (learn # <<>> /\ learn.pc = "chosen") =>
        IF learn.historical_perf = <<>>
        THEN learn.strategy = ChooseBaseStrategy(learn.features)
        ELSE \E top \in TopScoring(learn.historical_perf) :
                learn.strategy =
                    IF 10 * StrategyPerf(learn.historical_perf, top).error
                          * learn.features.error_tolerance.inv
                        <= 12 * learn.features.error_tolerance.num * 1000000
                          * StrategyPerf(learn.historical_perf, top).count
                    THEN top
                    ELSE ChooseBaseStrategy(learn.features)

(***************************************************************************)
(* Claims on the sketches.                                                 *)
(***************************************************************************)
\* C5: for every Count-Min sketch built by add calls with non-negative counts and
\* every key k, estimate(k) returns a value >= the sum of the counts added for k,
\* whatever the hash collisions are.
C5_NoUnderestimate ==
    /\ \A k \in CMSKeys :
          /\ CMSEstimate(cms, cmsHash, k).ok
          /\ CMSEstimate(cms, cmsHash, k).value >= cmsTrue[k]
    /\ cmsLast.op = "estimate" => cmsLast.ok /\ cmsLast.value >= cmsTrue[cmsLast.key]

\* C5 witness: two keys collide in every row, both were added, and estimate was called
C5_Witness ==
    /\ cmsLast.op = "estimate"
    /\ cmsTrue["x"] > 0 /\ cmsTrue["y"] > 0
    /\ \A i \in 1..cms.d :
          CMSCol(cms, cmsHash, "x", i - 1) = CMSCol(cms, cmsHash, "y", i - 1)
    /\ cmsLast.value > cmsTrue[cmsLast.key]

\* C6: for every HyperLogLog H reached by add and merge calls, serialize succeeds
\* (every register fits in one byte) and deserialize(serialize(H)) has the same b, m
\* and registers as H.
C6_HLLRoundTrip ==
    /\ hllLast.op = "serialize" => ~hllLast.raised /\ hllWire.has
    /\ (hllLast.op = "deserialize" /\ hllWire.delta = 0) =>
          /\ hllOut.ok
          /\ hllOut.sk.b = hllWire.snap.b
          /\ hllOut.sk.m = hllWire.snap.m
          /\ hllOut.sk.registers = hllWire.snap.registers

\* C6 witness: a sketch holding the largest rho and a merged-in register went round
C6_Witness ==
    /\ hllLast.op = "deserialize" /\ hllWire.delta = 0
    /\ \E k \in 1..hllWire.snap.m : hllWire.snap.registers[k] = HashBits - hllWire.snap.b
    /\ \E k \in 1..hllWire.snap.m : hllWire.snap.registers[k] = 1

\* C7: for every Count-Min sketch C reached by add calls with non-negative counts,
\* deserialize(serialize(C)) has the same width, depth, epsilon, delta and counters.
C7_CMSRoundTrip ==
    /\ cmsLast.op = "serialize" => cmsLast.ok
    /\ (cmsLast.op = "deserialize" /\ cmsWire.delta = 0) =>
          /\ cmsOut.ok
          /\ cmsOut.sk.w = cmsWire.snap.w
          /\ cmsOut.sk.d = cmsWire.snap.d
          /\ cmsOut.sk.epsilon = cmsWire.snap.epsilon
          /\ cmsOut.sk.delta = cmsWire.snap.delta
          /\ cmsOut.sk.table = cmsWire.snap.table

\* C7 witness: a two-row sketch with a two-byte counter and unequal cells went round
C7_Witness ==
    /\ cmsLast.op = "deserialize" /\ cmsWire.delta = 0
    /\ cmsWire.snap.d = 2
    /\ \E i \in 1..2, j \in 1..cmsWire.snap.w : cmsWire.snap.table[i][j] >= 300
    /\ cmsWire.snap.table[1] # cmsWire.snap.table[2]
    /\ \E j \in 2..cmsWire.snap.w : cmsWire.snap.table[1][j] # cmsWire.snap.table[1][1]

\* C8: merge sets every register of self to the maximum of its own and other's and
\* leaves other unchanged when b and m are equal; otherwise it raises and leaves both
\* sketches unchanged.
C8_MergeMax ==
    hllLast.op = "merge" =>
        LET self == hllLast.pre[hllLast.i]
            other == hllLast.pre[hllLast.j]
        IN IF self.b = other.b /\ self.m = other.m
           THEN /\ ~hllLast.raised
                /\ hll[hllLast.i].b = self.b /\ hll[hllLast.i].m = self.m
                /\ \A k \in 1..self.m :
                      hll[hllLast.i].registers[k]
                          = Max2(self.registers[k], other.registers[k])
                /\ hllLast.j # hllLast.i => hll[hllLast.j] = other
           ELSE hllLast.raised /\ hll = hllLast.pre

\* C8 witness (equal parameters): a merge raised one register and kept another
C8_Witness ==
    /\ hllLast.op = "merge" /\ ~hllLast.raised /\ hllLast.i # hllLast.j
    /\ \E k \in 1..hll[hllLast.i].m :
          hll[hllLast.i].registers[k] > hllLast.pre[hllLast.i].registers[k]
    /\ \E k \in 1..hll[hllLast.i].m :
          hll[hllLast.i].registers[k] > hllLast.pre[hllLast.j].registers[k]

\* C9: merging H with the deserialization of its own serialization leaves H unchanged.
C9_MergeSelfRoundTrip ==
    hllLast.op = "merge_round_trip" =>
        ~hllLast.raised /\ hll = hllLast.pre

\* C9 witness: a non-empty sketch was merged with its own round trip
C9_Witness ==
    /\ hllLast.op = "merge_round_trip"
    /\ \E k \in 1..hll[hllLast.i].m : hll[hllLast.i].registers[k] > 1

\* C10: deserializing a payload whose length differs from the size its header implies
\* (5 + m for HyperLogLog, 24 + 8*d*w for Count-Min), too short or too long, fails and
\* yields no sketch.
C10_LengthMismatchFails ==
    /\ (hllLast.op = "deserialize" /\ Len(hllWire.data) # 5 + hllWire.snap.m) => ~hllOut.ok
    /\ (cmsLast.op = "deserialize"
          /\ Len(cmsWire.data) # 24 + 8 * cmsWire.snap.d * cmsWire.snap.w) => ~cmsOut.ok

=============================================================================
